---- MODULE Spec2Model ----
(***************************************************************************)
(* A model of the frontier, the scheduler and the worker loop of the       *)
(* crawler: crawler/frontier.py, crawler/worker.py, crawler/__init__.py,   *)
(* crawler/robot_parser.py, scraper.py and utils/__init__.py.              *)
(*                                                                         *)
(* Threads are the main thread (Frontier.__init__, Crawler.start) and the  *)
(* worker threads (Worker.run).  A thread takes one step at a time; a step *)
(* ends where another thread can observe or change the shared state.       *)
(***************************************************************************)
EXTENDS Integers, Sequences, FiniteSets, TLC

\* -------------------------------------------------------------- bounds
NWorkers == 2
MaxNest == 2
MaxCalls == 2
MaxDelay == 1

\* ----------------------------------------------------- program constants
max_depth == 28
min_words == 30
num_bits == 64
similarity_count_threshold == 5

\* The worker threads, and the main thread that constructs the Frontier.
Workers == 1..NWorkers
Main == NWorkers + 1
Threads == Workers \cup {Main}

\* ------------------------------------------------------------------ URLs
\* A URL as urlparse splits it.  The path is the sequence of the segments
\* that follow each "/": "/wiki/A" is <<"wiki","A">>, "/wiki/A/" is
\* <<"wiki","A","">>, "/" is <<"">> and the empty path is <<>>.
Url(s, n, p, f) == [scheme |-> s, netloc |-> n, path |-> p, fragment |-> f]

RECURSIVE RStripSlash(_)
RStripSlash(p) ==
    IF p # <<>> /\ p[Len(p)] = "" THEN RStripSlash(SubSeq(p, 1, Len(p) - 1)) ELSE p

\* utils.normalize: the url string ends with "/" only when it has no
\* fragment and its path ends with "/"; rstrip removes every trailing "/".
normalize(u) ==
    IF u.fragment = "" /\ u.path # <<>> /\ u.path[Len(u.path)] = ""
    THEN [u EXCEPT !.path = RStripSlash(u.path)]
    ELSE u

Fragmentless(u) == [u EXCEPT !.fragment = ""]

\* utils.get_urlhash: sha256 over netloc/path/params/query, taken as
\* injective; scheme and fragment are not part of the hashed text.
get_urlhash(u) == <<u.netloc, u.path>>

StartsWith(p, q) == Len(q) <= Len(p) /\ SubSeq(p, 1, Len(q)) = q

\* A robots.txt url that would be the same for every host.
RobotsUrlOfWiki(domain) == Url("https", "poewiki.net", <<"robots.txt">>, "")
\* urljoin("https://" + domain, "robots.txt")
RobotsUrl(domain) == Url("https", domain, <<"robots.txt">>, "")

\* Python's None where a url, a queue entry or a scrape result is expected;
\* an optional number is the sequence << >> or <<n>>.
NoUrl == Url("", "", << >>, "")
NoEntry == [url |-> NoUrl, depth |-> 0]
NoScrape == [links |-> << >>, words |-> << >>, simhash |-> << >>]

\* ------------------------------------------------------- pure functions
\* scraper.is_infinite_trap is called by is_valid and by Worker.run, and
\* scraper.py holds no definition of it (the one in the file is commented
\* out).  It is modelled from the trap heuristics of the specification: a
\* calendar-style year/month/day run of path segments is a trap.
Years == {"2022"}
Months == {"07"}
Days == {"15"}
is_infinite_trap(u) ==
    \E i \in 1..(Len(u.path) - 2) :
        u.path[i] \in Years /\ u.path[i + 1] \in Months /\ u.path[i + 2] \in Days

\* The last path segments that end in one of the extensions is_valid
\* rejects (scraper.py:116-122), among the segments of this model.
BadExtensionSegments == {"a.pdf"}

\* A filter that would accept no url.
is_valid_nowhere(u) == FALSE
\* scraper.is_valid: scheme and hostname present, the url matches
\* https?://poewiki\.net/wiki/..., it is no trap and has no rejected extension.
is_valid(u) ==
    /\ u.scheme \in {"http", "https"}
    /\ u.netloc = "poewiki.net"
    /\ Len(u.path) >= 2 /\ u.path[1] = "wiki"
    /\ ~is_infinite_trap(u)
    /\ ~(u.fragment = "" /\ u.path[Len(u.path)] \in BadExtensionSegments)

\* CustomRobotsParser() before parse: the empty policy.
EmptyParser == [allowed |-> <<>>, disallowed |-> <<>>, sitemaps |-> <<>>]

\* CustomRobotsParser.can_fetch: the first disallowed prefix that matches
\* decides; it allows when some allowed prefix matches too.
RECURSIVE CanFetchFrom(_, _, _)
CanFetchFrom(parser, path, i) ==
    IF i > Len(parser.disallowed) THEN TRUE
    ELSE IF StartsWith(path, parser.disallowed[i])
         THEN \E j \in 1..Len(parser.allowed) : StartsWith(path, parser.allowed[j])
         ELSE CanFetchFrom(parser, path, i + 1)
\* A parser that would allow every path.
can_fetch_all(parser, path) == TRUE
can_fetch(parser, path) == CanFetchFrom(parser, path, 1)

\* config.user_agent, the agent the parsers are built for (frontier.py:292).
user_agent == "IR"

\* A line of a robots.txt file after the comment is cut off and the line
\* is split at the first ":" (robot_parser.py:13-24): the directive as it
\* is written and the stripped value.  The value of an Allow or Disallow
\* line is a path, << >> when it is blank; of a Sitemap line a url.
Line(directive, value) == [directive |-> directive, value |-> value]
\* A line that is blank once its comment is cut, and one without ":".
BlankLine == Line("", "")
NoColonLine == Line("no colon", "")

\* directive.strip().lower() for the spellings met here.
Lower(directive) ==
    CASE directive \in {"User-agent", "USER-AGENT"} -> "user-agent"
      [] directive \in {"Sitemap", "SITEMAP"} -> "sitemap"
      [] directive \in {"Allow", "ALLOW"} -> "allow"
      [] directive \in {"Disallow", "DISALLOW"} -> "disallow"
      [] directive = "Crawl-delay" -> "crawl-delay"
      [] OTHER -> directive

\* CustomRobotsParser(user_agent) as __init__ leaves it.
None == "None"
NewParser == [allowed |-> << >>, disallowed |-> << >>, sitemaps |-> << >>,
              current_user_agent |-> None]

\* A section test that would take the rules of every agent.
InAnySection(current_user_agent) == TRUE
\* robot_parser.py:30
InSection(current_user_agent) ==
    current_user_agent = user_agent \/ current_user_agent = "*"

\* One pass of the for loop of CustomRobotsParser.parse (lines 11-36).
parse_line(p, line) ==
    IF line = BlankLine \/ line = NoColonLine THEN p
    ELSE LET directive == Lower(line.directive)
             value == line.value
         IN  IF directive = "user-agent"
             THEN [p EXCEPT !.current_user_agent = value]
             ELSE IF directive = "sitemap"
             THEN [p EXCEPT !.sitemaps = Append(@, value)]
             ELSE IF InSection(p.current_user_agent)
             THEN IF directive = "allow"
                  THEN IF value # << >>
                       THEN [p EXCEPT !.allowed = Append(@, value)] ELSE p
                  ELSE IF directive = "disallow"
                  THEN IF value # << >>
                       THEN [p EXCEPT !.disallowed = Append(@, value)] ELSE p
                  ELSE p
             ELSE p

\* worker.jaccard_similarity over the set of path pieces (path.split("/")
\* yields the empty piece before the first "/"); the urls of this model
\* carry no query.  The result is the pair <<|intersection|, |union|>>.
Pieces(u) == {""} \cup {u.path[i] : i \in 1..Len(u.path)}
jaccard_similarity(u1, u2) ==
    IF u1.netloc # u2.netloc THEN <<0, 1>>
    ELSE <<Cardinality(Pieces(u1) \cap Pieces(u2)), Cardinality(Pieces(u1) \cup Pieces(u2))>>

\* worker.is_similar_url: at least similarity_count_threshold old urls
\* have a Jaccard similarity >= 0.95 with the new url.
is_similar_url(new_url, old_urls) ==
    Cardinality({o \in old_urls :
        LET j == jaccard_similarity(new_url, o) IN 100 * j[1] >= 95 * j[2]})
      >= similarity_count_threshold

\* SimHash.similarity: the share of equal bits among num_bits bits.
RECURSIVE DiffBits(_, _, _)
DiffBits(a, b, n) ==
    IF n = 0 THEN 0
    ELSE (IF a % 2 # b % 2 THEN 1 ELSE 0) + DiffBits(a \div 2, b \div 2, n - 1)
\* similarity > 0.95, the threshold of Worker.is_similar
SimilarHash(a, b) == 100 * (num_bits - DiffBits(a, b, num_bits)) > 95 * num_bits

\* Worker.is_similar over a copy of the similarity index
is_similar(new_simhash, simhashes) ==
    \E k \in DOMAIN simhashes : SimilarHash(new_simhash, simhashes[k])

\* ------------------------------------------------------------- the web
\* What the crawler can meet: one host that is_valid accepts and one it
\* does not (reached by a redirect), a sitemap that lists the seed page
\* itself next to another page, and the answers a download can give.
uA == Url("http", "poewiki.net", <<"wiki", "A">>, "")
uB == Url("http", "poewiki.net", <<"wiki", "B">>, "")
uAHttps == Url("https", "poewiki.net", <<"wiki", "A">>, "")
uX == Url("http", "b.net", <<"x">>, "")
uC == Url("http", "poewiki.net", <<"wiki", "C">>, "")
uD == Url("http", "poewiki.net", <<"wiki", "D">>, "")
uPrivate == Url("http", "poewiki.net", <<"wiki", "private", "p1">>, "")
uSitemap == Url("https", "poewiki.net", <<"sitemap.xml">>, "")
uIndex == Url("https", "poewiki.net", <<"sitemap_index.xml">>, "")
Hosts == {"poewiki.net", "b.net"}

\* The site behind poewiki.net, fixed for a run: "wiki" is the site of the
\* crawl; "catalog" has a robots.txt with one sitemap of three pages;
\* "loop" has a robots.txt that names a sitemap index which lists a plain
\* sitemap and then itself.
VARIABLE web
Webs == {"wiki", "catalog", "loop"}

\* config.seed_urls
Seeds == <<uA>>

\* The parsers download_robots_txt_parser_for_domain can build for a host:
\* the empty one (error, status # 200, wrong content type) or a parsed one.
RobotsOutcomes(domain) ==
    IF domain # "poewiki.net" THEN {EmptyParser}
    ELSE IF web = "wiki"
    THEN {EmptyParser,
          [allowed |-> <<>>, disallowed |-> << <<"wiki", "private">> >>,
           sitemaps |-> <<uSitemap>>]}
    ELSE {[allowed |-> <<>>, disallowed |-> << <<"wiki", "private">> >>,
           sitemaps |-> IF web = "loop" THEN <<uIndex>> ELSE <<uSitemap>>]}

\* The <url><loc> entries of the sitemap of the site "catalog".
CatalogPages == <<uB, uC, uD>>
\* What get_urls_from_sitemap can find behind a sitemap url
\* (frontier.py:380-414): nothing (error, status # 200, no XML), a urlset
\* with its <url><loc> texts, or an index with its <sitemap><loc> texts.
Document(index, locs) == [index |-> index, locs |-> locs]
SitemapOutcomes(sm) ==
    IF sm = uSitemap
    THEN IF web = "catalog" THEN {Document(FALSE, CatalogPages)}
         ELSE {Document(FALSE, <<>>), Document(FALSE, <<uA, uB>>)}
    ELSE IF sm = uIndex THEN {Document(TRUE, <<uSitemap, uIndex>>)}
    ELSE {Document(FALSE, <<>>)}

\* The Location headers of a redirect, and the link lists of a scraped page.
RedirectTargets == {uX, RobotsUrl("b.net")}
OutlinkChoices == {<< >>, <<uB>>}
Fingerprints == {0}
Statuses == {204, 404}

\* What a download of a url and the scrape of its page can come to: the
\* seed page redirects or links on, the other wiki page is thin or a
\* duplicate, the host outside the wiki answers with errors.
Outcomes(u) ==
    IF u.netloc = "b.net" THEN {"error", "redirect_no_raw", "download_fail"}
    ELSE IF u.path = uA.path THEN {"redirect", "scraped", "scrape_fail"}
    ELSE {"low_data", "scraped", "empty_body"}

\* -------------------------------------------------------------- state
VARIABLES
    robots_txt,         \* the lines of the robots.txt content given to parse
    parsed,             \* how many of its lines the for loop of parse has done
    txt_parser,         \* the CustomRobotsParser that parses it
    verdict,            \* history: the last can_fetch call on that parser:
                        \* its path and what it returned
    disk,               \* the index as the last save.sync() left it in the file
    syncing,            \* the threads that have written a record of the index
                        \* and have not yet called save.sync()
    last_backup_time,   \* Frontier.last_backup_time: 0 as handle_shelves leaves
                        \* it, 1 once pickle_fields has dumped
    backups,            \* the pickle files of ./backup_datastructures
    pickled,            \* history: the fields of the Frontier as they were
                        \* when pickle_fields dumped last
    api,                \* history: the add_url call a client made last, the url
                        \* of its call before, and the index, queues, robots
                        \* cache and subdomain map the last call found
    downloads,          \* history: url -> how often the Frontier downloaded
                        \* it (robots.txt files and sitemaps)
    since_request,      \* history: domain -> the time elapsed since the Frontier
                        \* last downloaded a robots.txt or a sitemap from it,
                        \* up to politeness_delay
    politeness_delay,   \* Frontier.politeness_delay = config.time_delay
    save,               \* the shelve: urlhash -> (url, depth, completed)
    domains_to_scrape,  \* dict in insertion order: <<[domain, queue]>>
    last_request_time,  \* dict domain -> time; kept as the time elapsed since
                        \* then, time.time() - last_request_time[domain], up to
                        \* politeness_delay, past which no test tells two values apart
    robots_parsers,     \* dict domain -> parser
    sitemaps,           \* dict domain -> set of sitemap urls
    subdomains,         \* defaultdict(set): hostname -> set of urls
    simhashes,          \* dict filled by add_simhash
    low_data_urls,      \* set
    error_urls,         \* set
    lock,               \* the threads that hold Frontier.lock (none or one)
    robots_parsers_lock,\* the threads that hold Frontier.robots_parsers_lock
    pc,                 \* where each thread is
    cur,                \* worker: (tbd_url, depth) of Worker.run, or None
    adds,               \* the add_url calls a thread still has to make
    stack,              \* the add_url calls a thread is inside of
    snap,               \* get_tbd_url: the rest of list(domains_to_scrape.items())
    sleep_left,         \* get_tbd_url: the time left until time.sleep returns
    after,              \* worker: what follows the pending mark_url_complete
    scr,                \* worker: (scraped_urls, words, simhash) of the page
    similar,            \* worker: the local variable similar
    puts,               \* history: domain -> the urls put into its queue, in order
    gets,               \* history: domain -> the urls get_tbd_url returned, in order
    since_return,       \* history: domain -> the time elapsed since get_tbd_url
                        \* last returned a url of it, up to politeness_delay
    fetched,            \* history: the urls download was called with by a worker
    ready_at_start      \* history: get_tbd_url: the domains that were ready and
                        \* had a queued url when the for loop copied the items

frontier_vars == <<save, domains_to_scrape, last_request_time, robots_parsers,
                   sitemaps, subdomains, simhashes, low_data_urls, error_urls>>
thread_vars == <<pc, cur, adds, stack, snap, sleep_left, after, scr, similar>>
history_vars == <<puts, gets, since_return, fetched, ready_at_start,
                  downloads, since_request>>
backup_vars == <<last_backup_time, backups, pickled>>
sync_vars == <<disk, syncing>>
parser_vars == <<robots_txt, parsed, txt_parser, verdict>>
\* The two other locks of the Frontier, and what a thread that is inside a
\* Frontier call has still to do to the locks.
VARIABLES
    simhash_lock,       \* the threads that hold Frontier.simhash_lock
    sitemaps_lock,      \* the threads that hold Frontier.sitemaps_lock
    todo                \* per thread: the acquisitions and releases left of
                        \* its call, and the locks it holds, innermost last
lock_vars == <<simhash_lock, sitemaps_lock, todo>>
NoSteps == [steps |-> << >>, held |-> << >>]
\* No thread is followed lock by lock.
NoLocking ==
    /\ simhash_lock = {} /\ sitemaps_lock = {}
    /\ todo = [t \in Threads |-> NoSteps]

vars == <<politeness_delay, web, parser_vars, lock_vars, api, backup_vars, sync_vars, frontier_vars, lock,
          robots_parsers_lock, thread_vars, history_vars>>

\* ------------------------------------------------- dict and queue helpers
Keys(d) == {d[i].domain : i \in 1..Len(d)}
IndexOf(d, domain) == CHOOSE i \in 1..Len(d) : d[i].domain = domain
QueueOf(d, domain) == d[IndexOf(d, domain)].queue
\* A put that would place the entry at the head of the queue.
PutFront(d, domain, e) ==
    IF domain \in Keys(d)
    THEN [d EXCEPT ![IndexOf(d, domain)].queue = <<e>> \o @]
    ELSE Append(d, [domain |-> domain, queue |-> <<e>>])
\* self.domains_to_scrape[domain].put(e): a defaultdict(Queue)
Put(d, domain, e) ==
    IF domain \in Keys(d)
    THEN [d EXCEPT ![IndexOf(d, domain)].queue = Append(@, e)]
    ELSE Append(d, [domain |-> domain, queue |-> <<e>>])
\* url_queue.get(block=False) on a queue that holds an entry
Pop(d, domain) == [d EXCEPT ![IndexOf(d, domain)].queue = Tail(@)]
\* del self.domains_to_scrape[domain]
Del(d, domain) == SelectSeq(d, LAMBDA r : r.domain # domain)
\* dict[key] = value
Set(f, k, v) == [x \in DOMAIN f \cup {k} |-> IF x = k THEN v ELSE f[x]]

Entry(u, depth) == [url |-> u, depth |-> depth]
Record(u, depth, completed) == [url |-> u, depth |-> depth, completed |-> completed]
\* One more download of a url.
Counted(f, k) == Set(f, k, IF k \in DOMAIN f THEN f[k] + 1 ELSE 1)

\* No client call made yet.
NoCall == [n |-> 0, op |-> "none", url |-> NoUrl, depth |-> 0, prev |-> NoUrl,
           save |-> << >>, queues |-> << >>, robots |-> << >>,
           subdomains |-> << >>]

\* Frontier.bad_urls and Frontier.errors: handle_shelves sets them
\* (frontier.py:445-446, 451-453) and nothing adds to them; add_low_data_url
\* and add_error_url fill low_data_urls and error_urls.
bad_urls == {}
errors == {}

\* No pickle file in the backup folder; nothing dumped so far.
NoBackup == [written |-> FALSE, subdomains |-> << >>, robots_parsers |-> << >>,
             sitemaps |-> << >>, simhashes |-> << >>, last_request_time |-> {},
             bad_urls |-> {}, errors |-> {}]
NoPickled == [subdomains |-> << >>, last_request_time |-> {}, simhashes |-> << >>,
              low_data_urls |-> {}, error_urls |-> {}]

\* pickle_fields (frontier.py:456-481): with more than backup_interval
\* since last_backup_time, which holds on the first call after a
\* construction (handle_shelves leaves last_backup_time = 0) and then not
\* again within the minutes a crawl of this size takes, the fields are
\* dumped, one file each.  The times of last_request_time are dumped as
\* they are; the model keeps them as elapsed times, so the file is kept
\* as the set of its domains.
pickle_fields ==
    IF last_backup_time = 0
    THEN /\ backups' = [written |-> TRUE, subdomains |-> subdomains,
                        robots_parsers |-> robots_parsers, sitemaps |-> sitemaps,
                        simhashes |-> simhashes,
                        last_request_time |-> DOMAIN last_request_time,
                        bad_urls |-> bad_urls, errors |-> errors]
         /\ pickled' = [subdomains |-> subdomains,
                        last_request_time |-> DOMAIN last_request_time,
                        simhashes |-> simhashes,
                        low_data_urls |-> low_data_urls,
                        error_urls |-> error_urls]
         /\ last_backup_time' = 1
    ELSE UNCHANGED backup_vars

\* self.save.sync() by thread t (frontier.py:153, 217, 280): what the
\* index holds is in the file.
Sync(t) == disk' = save' /\ syncing' = syncing \ {t}

\* No robots.txt content is being parsed outside the Frontier.
NoVerdict == [path |-> << >>, result |-> TRUE, asked |-> FALSE]
NoParse ==
    /\ robots_txt = << >> /\ parsed = 0
    /\ txt_parser = NewParser /\ verdict = NoVerdict

\* mark_url_complete that leaves an unknown hash out of the index.
mark_known_url_complete(s, url, depth) ==
    IF get_urlhash(url) \in DOMAIN s
    THEN Set(s, get_urlhash(url), Record(url, depth, TRUE))
    ELSE s

\* mark_url_complete (frontier.py:211-217): the index after the call.  The
\* hash is taken of the url as given, and the record is written whether or
\* not the hash was in the index.
mark_url_complete(s, url, depth) ==
    Set(s, get_urlhash(url), Record(url, depth, TRUE))

\* ---------------------------------------------------------------- Init
\* Frontier.__init__ with restart=True after handle_shelves: an empty
\* index and empty maps; the seeds are still to be added.
Init ==
    /\ last_backup_time = 0 /\ backups = NoBackup /\ pickled = NoPickled
    /\ NoParse /\ NoLocking
    /\ syncing = {}
    /\ politeness_delay \in 0..MaxDelay
    /\ save = << >> /\ disk = << >>
    /\ domains_to_scrape = << >>
    /\ last_request_time = << >>
    /\ robots_parsers = << >>
    /\ sitemaps = << >>
    /\ subdomains = [h \in Hosts |-> {}]
    /\ simhashes = << >>
    /\ low_data_urls = {}
    /\ error_urls = {}
    /\ lock = {}
    /\ robots_parsers_lock = {}
    /\ pc = [t \in Threads |-> IF t = Main THEN "m_seed" ELSE "w_idle"]
    /\ cur = [t \in Workers |-> NoEntry]
    /\ adds = [t \in Threads |-> IF t = Main
                 THEN [i \in 1..Len(Seeds) |-> Entry(Seeds[i], 0)] ELSE << >>]
    /\ stack = [t \in Threads |-> << >>]
    /\ snap = [t \in Workers |-> << >>]
    /\ sleep_left = [t \in Workers |-> 0]
    /\ after = [t \in Workers |-> "loop"]
    /\ scr = [t \in Workers |-> NoScrape]
    /\ similar = [t \in Workers |-> FALSE]
    /\ puts = [h \in Hosts |-> << >>]
    /\ gets = [h \in Hosts |-> << >>]
    /\ since_return = << >>
    /\ fetched = {}
    /\ ready_at_start = [t \in Workers |-> {}]
    /\ web = "wiki"
    /\ api = NoCall
    /\ downloads = << >>
    /\ since_request = << >>

\* --------------------------------------------------------------- add_url
\* A frame is one add_url call in progress (frontier.py:113-154): its
\* normalized url, its depth, the stage it is at, and, while it ingests the
\* sitemaps of a new host, the sitemap urls and the sitemap entries left,
\* and inside get_urls_from_sitemap the sitemaps still to download, each
\* with the depth of its call in the recursion, and the urls found so far.
Frame(u, depth, stage) ==
    [url |-> u, depth |-> depth, stage |-> stage, sm |-> << >>, todo |-> << >>,
     fetch |-> << >>, got |-> << >>]
Top(t) == stack[t][Len(stack[t])]
SetTop(t, f) == [stack[t] EXCEPT ![Len(stack[t])] = f]
PopFrame(t) == SubSeq(stack[t], 1, Len(stack[t]) - 1)

\* The threads that are between add_url calls: the main thread adding the
\* seeds (frontier.py:59-61), a worker adding a redirect target or the
\* scraped urls (worker.py:94, 144-145), a client of the Frontier calling
\* add_url itself.
AddPcs == {"m_seed", "w_adds", "m_api"}
AfterAdds(p) ==
    IF p = "m_seed" THEN "m_start" ELSE IF p = "m_api" THEN "m_idle" ELSE "w_mark"

\* An index test that would find every hash of a host met before.
EnterKnownHost(url, depth) ==
    LET u == normalize(url)
    IN  Frame(u, depth, IF u.netloc \notin DOMAIN robots_parsers THEN "robots" ELSE "return")
\* add_url lines 122-140 for the call add_url(url, depth): the frame the
\* call opens; its stage is "return" when the hash is in the index.
Enter(url, depth) ==
    LET u == normalize(url)
        urlhash == get_urlhash(Fragmentless(u))
    IN  IF urlhash \in DOMAIN save THEN Frame(u, depth, "return")
        ELSE Frame(u, depth,
                   IF u.netloc \notin DOMAIN robots_parsers THEN "robots" ELSE "commit")

\* What a thread does once its add_url calls have returned to the caller
\* with new stack st and calls ad left: release the lock with the outermost
\* call, move on after the last call.
Return(t, st, ad) ==
    /\ stack' = [stack EXCEPT ![t] = st]
    /\ adds' = [adds EXCEPT ![t] = ad]
    /\ robots_parsers_lock' = IF st = << >> THEN {} ELSE {t}
    /\ pc' = [pc EXCEPT ![t] = IF st = << >> /\ ad = << >> THEN AfterAdds(@) ELSE @]

\* The outermost call: `with self.lock and self.robots_parsers_lock`
\* acquires robots_parsers_lock alone (the value of `a and b` is b).
AddCall(t) ==
    /\ pc[t] \in AddPcs /\ stack[t] = << >> /\ adds[t] # << >>
    /\ robots_parsers_lock = {}
    /\ LET a == Head(adds[t])
           f == Enter(a.url, a.depth)
       IN  Return(t, IF f.stage = "return" THEN << >> ELSE <<f>>, Tail(adds[t]))
    /\ UNCHANGED <<politeness_delay, web, parser_vars, lock_vars, api, backup_vars, sync_vars, frontier_vars, lock, cur, snap, sleep_left,
                   after, scr, similar, history_vars>>

\* get_robots_txt_parser and download_robots_txt_parser_for_domain
\* (frontier.py:248-308) for a new domain, under self.lock: the robots.txt
\* record enters the index as completed, last_request_time is set, the
\* parser is cached; then get_sitemap_urls_from_robots_txt lists its
\* sitemaps.  self.config.politeness_delay is no attribute of Config: with
\* the domain in last_request_time the call raises and the thread ends.
AddRobots(t) ==
    /\ stack[t] # << >> /\ Top(t).stage = "robots"
    /\ lock = {}
    /\ LET domain == Top(t).url.netloc
           robots_url == RobotsUrl(domain)
           urlhash == get_urlhash(robots_url)
       IN  IF domain \in DOMAIN last_request_time
           THEN /\ stack' = [stack EXCEPT ![t] = << >>]
                /\ adds' = [adds EXCEPT ![t] = << >>]
                /\ robots_parsers_lock' = {}
                /\ pc' = [pc EXCEPT ![t] = "dead"]
                /\ save' = IF urlhash \in DOMAIN save THEN save
                           ELSE Set(save, urlhash, Record(robots_url, 1, TRUE))
                /\ UNCHANGED <<last_request_time, robots_parsers, downloads,
                               since_request>>
           ELSE \E parser \in RobotsOutcomes(domain) :
                /\ save' = IF urlhash \in DOMAIN save THEN save
                           ELSE Set(save, urlhash, Record(robots_url, 1, TRUE))
                /\ last_request_time' = Set(last_request_time, domain, 0)
                /\ robots_parsers' = Set(robots_parsers, domain, parser)
                /\ downloads' = Counted(downloads, robots_url)
                /\ since_request' = Set(since_request, domain, 0)
                /\ stack' = [stack EXCEPT ![t] =
                       SetTop(t, [Top(t) EXCEPT !.stage = "sitemaps",
                                                !.sm = parser.sitemaps])]
                /\ UNCHANGED <<adds, robots_parsers_lock, pc>>
    /\ Sync(t)
    /\ UNCHANGED <<politeness_delay, web, parser_vars, lock_vars, api, backup_vars, domains_to_scrape, sitemaps, subdomains,
                   simhashes, low_data_urls, error_urls, lock, cur, snap,
                   sleep_left, after, scr, similar, puts, gets, since_return,
                   fetched, ready_at_start>>

\* process_sitemaps (frontier.py:336-355) for the next sitemap url: a url
\* seen before is skipped; a new one is recorded and handed to
\* get_urls_from_sitemap (frontier.py:358-414).  Every call of that
\* function first sleeps out the politeness delay of the sitemap's domain,
\* then downloads; for an index it calls itself on each <sitemap><loc>
\* child, with no look at the recorded set, and the interpreter ends a
\* recursion deeper than MaxNest with a RecursionError that nothing catches.
\* Once the outermost call returns, the entries is_valid accepts are left
\* to add.
AddSitemap(t) ==
    /\ stack[t] # << >> /\ Top(t).stage = "sitemaps" /\ Top(t).todo = << >>
    /\ Top(t).fetch # << >> \/ Top(t).sm # << >>
    /\ LET f == Top(t)
           outermost == f.fetch = << >>
           sitemap_url == IF outermost THEN normalize(Head(f.sm)) ELSE Head(f.fetch).url
           level == IF outermost THEN 1 ELSE Head(f.fetch).level
           rest == IF outermost THEN << >> ELSE Tail(f.fetch)
           domain == sitemap_url.netloc
           seen == IF domain \in DOMAIN sitemaps THEN sitemaps[domain] ELSE {}
       IN  IF outermost /\ sitemap_url \in seen
           THEN /\ stack' = [stack EXCEPT ![t] = SetTop(t, [f EXCEPT !.sm = Tail(@)])]
                /\ UNCHANGED <<sitemaps, downloads, since_request, adds,
                               robots_parsers_lock, pc>>
           ELSE IF level > MaxNest
           THEN /\ stack' = [stack EXCEPT ![t] = << >>]
                /\ adds' = [adds EXCEPT ![t] = << >>]
                /\ robots_parsers_lock' = {}
                /\ pc' = [pc EXCEPT ![t] = "dead"]
                /\ UNCHANGED <<sitemaps, downloads, since_request>>
           ELSE /\ domain \in DOMAIN last_request_time
                     => last_request_time[domain] >= politeness_delay
                /\ sitemaps' = IF outermost
                               THEN Set(sitemaps, domain, seen \cup {sitemap_url})
                               ELSE sitemaps
                /\ downloads' = Counted(downloads, sitemap_url)
                /\ since_request' = Set(since_request, domain, 0)
                /\ \E doc \in SitemapOutcomes(sitemap_url) :
                     LET children == [i \in 1..Len(doc.locs) |->
                                         [url |-> doc.locs[i], level |-> level + 1]]
                         fetch == IF doc.index THEN children \o rest ELSE rest
                         got == IF doc.index THEN f.got ELSE f.got \o doc.locs
                     IN  stack' = [stack EXCEPT ![t] = SetTop(t,
                             [f EXCEPT !.sm = IF outermost THEN Tail(@) ELSE @,
                                       !.fetch = fetch,
                                       !.got = IF fetch = << >> THEN << >> ELSE got,
                                       !.todo = IF fetch = << >>
                                                THEN SelectSeq(got, is_valid)
                                                ELSE << >>])]
                /\ UNCHANGED <<adds, robots_parsers_lock, pc>>
    /\ UNCHANGED <<politeness_delay, web, parser_vars, lock_vars, api, backup_vars, sync_vars, save, domains_to_scrape,
                   last_request_time, robots_parsers, subdomains, simhashes,
                   low_data_urls, error_urls, lock, cur, snap, sleep_left,
                   after, scr, similar, puts, gets, since_return, fetched,
                   ready_at_start>>

\* process_sitemaps line 355: the nested call add_url(url, 1), made while
\* the add_url call that met the new host has not yet tested robots or
\* written its own record.
AddNested(t) ==
    /\ stack[t] # << >> /\ Top(t).stage = "sitemaps" /\ Top(t).todo # << >>
    /\ LET f == Enter(Head(Top(t).todo), 1)
           rest == SetTop(t, [Top(t) EXCEPT !.todo = Tail(@)])
       IN  stack' = [stack EXCEPT ![t] = IF f.stage = "return" THEN rest ELSE Append(rest, f)]
    /\ UNCHANGED <<politeness_delay, web, parser_vars, lock_vars, api, backup_vars, sync_vars, frontier_vars, lock, robots_parsers_lock,
                   pc, cur, adds, snap, sleep_left, after, scr, similar,
                   history_vars>>

\* add_url lines 142-154: the url joins the subdomain map; a path robots
\* denies ends the call; otherwise the record is written as not completed
\* and the url is put into the queue of its domain.
Committing(t) ==
    /\ stack[t] # << >>
    /\ \/ Top(t).stage = "commit"
       \/ /\ Top(t).stage = "sitemaps" /\ Top(t).todo = << >>
          /\ Top(t).sm = << >> /\ Top(t).fetch = << >>

AddCommit(t) ==
    /\ Committing(t)
    /\ LET u == Top(t).url
           domain == u.netloc
           fragmentless_url == Fragmentless(u)
           urlhash == get_urlhash(fragmentless_url)
       IN  /\ subdomains' = [subdomains EXCEPT ![domain] = @ \cup {fragmentless_url}]
           /\ IF ~can_fetch(robots_parsers[domain], u.path)
              THEN UNCHANGED <<save, domains_to_scrape, puts>>
              ELSE /\ save' = Set(save, urlhash,
                                  Record(fragmentless_url, Top(t).depth, FALSE))
                   /\ domains_to_scrape' =
                          Put(domains_to_scrape, domain,
                              Entry(fragmentless_url, Top(t).depth))
                   /\ puts' = [puts EXCEPT ![domain] = Append(@, fragmentless_url)]
    /\ Return(t, PopFrame(t), adds[t])
    /\ Sync(t)
    /\ UNCHANGED <<politeness_delay, web, parser_vars, lock_vars, api, backup_vars, last_request_time, robots_parsers,
                   sitemaps, simhashes, low_data_urls, error_urls, lock,
                   cur, snap, sleep_left, after, scr, similar, gets,
                   since_return, fetched, ready_at_start,
                   downloads, since_request>>

\* ----------------------------------------------------------- get_tbd_url
\* time.time() - last_request_time >= politeness_delay (frontier.py:96-102);
\* for a domain that is no key last_request_time is 0, and the time since
\* the epoch exceeds every politeness delay.
time_since_last_request(domain) ==
    IF domain \in DOMAIN last_request_time
    THEN last_request_time[domain] ELSE politeness_delay
\* A test that would find every domain ready.
ReadyAlways(domain) == TRUE
Ready(domain) == time_since_last_request(domain) >= politeness_delay

\* The test of the while loop (frontier.py:94, 111), made holding self.lock:
\* with no domain left the call returns (None, None) and the worker leaves
\* its loop (worker.py:50-52); otherwise the for loop starts over a copy of
\* the items.
While(t) ==
    IF Len(domains_to_scrape) = 0
    THEN /\ lock' = {}
         /\ pc' = [pc EXCEPT ![t] = "exit"]
         /\ UNCHANGED <<snap, ready_at_start>>
    ELSE /\ lock' = {t}
         /\ pc' = [pc EXCEPT ![t] = "g_for"]
         /\ snap' = [snap EXCEPT ![t] =
                [i \in 1..Len(domains_to_scrape) |-> domains_to_scrape[i].domain]]
         /\ ready_at_start' = [ready_at_start EXCEPT ![t] =
                {d \in Keys(domains_to_scrape) :
                    Ready(d) /\ QueueOf(domains_to_scrape, d) # << >>}]

\* get_tbd_url is entered: self.lock is acquired and pickle_fields is
\* called (frontier.py:91-94).
GetEnter(t) ==
    /\ pc[t] = "w_get" /\ lock = {}
    /\ pickle_fields
    /\ While(t)
    /\ UNCHANGED <<politeness_delay, web, parser_vars, lock_vars, api, sync_vars, frontier_vars, robots_parsers_lock, cur,
                   adds, stack, sleep_left, after, scr, similar,
                   puts, gets,
                   since_return, fetched, downloads, since_request>>

\* A loop that would pass over a domain whether it is ready or not.
GetSkipAny(t) ==
    /\ pc[t] = "g_for" /\ snap[t] # << >>
    /\ snap' = [snap EXCEPT ![t] = Tail(@)]
    /\ UNCHANGED <<politeness_delay, web, parser_vars, lock_vars, api, backup_vars, sync_vars, frontier_vars, lock, robots_parsers_lock,
                   pc, cur, adds, stack, sleep_left, after, scr, similar,
                   history_vars>>
\* A domain inside its politeness window is passed over.
GetSkip(t) ==
    /\ pc[t] = "g_for" /\ snap[t] # << >>
    /\ ~Ready(Head(snap[t]))
    /\ snap' = [snap EXCEPT ![t] = Tail(@)]
    /\ UNCHANGED <<politeness_delay, web, parser_vars, lock_vars, api, backup_vars, sync_vars, frontier_vars, lock, robots_parsers_lock,
                   pc, cur, adds, stack, sleep_left, after, scr, similar,
                   history_vars>>

\* A ready domain with a queued url: the url leaves the queue, the time is
\* recorded, the lock is released with the return (frontier.py:103-106).
Take(t) ==
    /\ pc[t] = "g_for" /\ snap[t] # << >>
    /\ LET domain == Head(snap[t])
           queue == QueueOf(domains_to_scrape, domain)
       IN  /\ Ready(domain) /\ queue # << >>
           /\ domains_to_scrape' = Pop(domains_to_scrape, domain)
           /\ last_request_time' = Set(last_request_time, domain, 0)
           /\ cur' = [cur EXCEPT ![t] = Head(queue)]
    /\ lock' = {}
    /\ snap' = [snap EXCEPT ![t] = << >>]
    /\ pc' = [pc EXCEPT ![t] = "w_check"]
    /\ UNCHANGED <<politeness_delay, web, parser_vars, lock_vars, api, backup_vars, sync_vars, save, robots_parsers, sitemaps, subdomains,
                   simhashes, low_data_urls, error_urls,
                   robots_parsers_lock, adds, stack, sleep_left, after,
                   scr, similar, puts, fetched, ready_at_start,
                   downloads, since_request>>
GetReturn(t) ==
    /\ Take(t)
    /\ gets' = [gets EXCEPT ![Head(snap[t])] = Append(@, cur'[t].url)]
    /\ since_return' = Set(since_return, Head(snap[t]), 0)

\* A ready domain whose queue is empty: get raises Empty (frontier.py:107).
GetEmpty(t) ==
    /\ pc[t] = "g_for" /\ snap[t] # << >>
    /\ Ready(Head(snap[t]))
    /\ QueueOf(domains_to_scrape, Head(snap[t])) = << >>
    /\ pc' = [pc EXCEPT ![t] = "g_del"]
    /\ UNCHANGED <<politeness_delay, web, parser_vars, lock_vars, api, backup_vars, sync_vars, frontier_vars, lock, robots_parsers_lock,
                   cur, adds, stack, snap, sleep_left, after, scr,
                   similar, history_vars>>

\* del self.domains_to_scrape[domain] (frontier.py:108): the queue object
\* leaves the dict with whatever add_url has put into it since get raised.
GetDel(t) ==
    /\ pc[t] = "g_del"
    /\ domains_to_scrape' = Del(domains_to_scrape, Head(snap[t]))
    /\ snap' = [snap EXCEPT ![t] = Tail(@)]
    /\ pc' = [pc EXCEPT ![t] = "g_for"]
    /\ UNCHANGED <<politeness_delay, web, parser_vars, lock_vars, api, backup_vars, sync_vars, save, last_request_time, robots_parsers,
                   sitemaps, subdomains, simhashes, low_data_urls,
                   error_urls, lock, robots_parsers_lock, cur, adds,
                   stack, sleep_left, after, scr, similar, history_vars>>

\* The for loop ended without a return: time.sleep(self.politeness_delay)
\* starts, with self.lock held (frontier.py:109).
GetSleep(t) ==
    /\ pc[t] = "g_for" /\ snap[t] = << >>
    /\ sleep_left' = [sleep_left EXCEPT ![t] = politeness_delay]
    /\ pc' = [pc EXCEPT ![t] = "g_sleep"]
    /\ UNCHANGED <<politeness_delay, web, parser_vars, lock_vars, api, backup_vars, sync_vars, frontier_vars, lock, robots_parsers_lock,
                   cur, adds, stack, snap, after, scr, similar,
                   history_vars>>

\* time.sleep returns and the while loop tests again.
GetWake(t) ==
    /\ pc[t] = "g_sleep" /\ sleep_left[t] = 0
    /\ While(t)
    /\ UNCHANGED <<politeness_delay, web, parser_vars, lock_vars, api, backup_vars, sync_vars, frontier_vars, robots_parsers_lock, cur,
                   adds, stack, sleep_left, after, scr, similar,
                   puts, gets,
                   since_return, fetched, downloads, since_request>>

\* ------------------------------------------------------------ Worker.run
\* worker.py:54-79, the tests made before the download.  Over depth: mark.
\* Otherwise get_bad_urls copies the two sets under self.lock; a url
\* similar to the low-data urls or to the error urls, or a trap, is marked
\* without a download.  add_low_data_url(tbd_url, 404) passes one argument
\* too many, so that branch raises after the mark and ends the thread.
WorkerCheck(t) ==
    /\ pc[t] = "w_check"
    /\ IF cur[t].depth > max_depth
       THEN /\ pc' = [pc EXCEPT ![t] = "w_mark"]
            /\ after' = [after EXCEPT ![t] = "loop"]
       ELSE /\ lock = {}
            /\ IF is_similar_url(cur[t].url, low_data_urls)
               THEN /\ pc' = [pc EXCEPT ![t] = "w_mark"]
                    /\ after' = [after EXCEPT ![t] = "raise"]
               ELSE IF is_similar_url(cur[t].url, error_urls)
               THEN /\ pc' = [pc EXCEPT ![t] = "w_mark"]
                    /\ after' = [after EXCEPT ![t] = "error_url"]
               ELSE IF is_infinite_trap(cur[t].url)
               THEN /\ pc' = [pc EXCEPT ![t] = "w_mark"]
                    /\ after' = [after EXCEPT ![t] = "loop"]
               ELSE /\ pc' = [pc EXCEPT ![t] = "w_download"]
                    /\ after' = after
    /\ UNCHANGED <<politeness_delay, web, parser_vars, lock_vars, api, backup_vars, sync_vars, frontier_vars, lock, robots_parsers_lock,
                   cur, adds, stack, snap, sleep_left, scr, similar,
                   history_vars>>

\* mark_url_complete (frontier.py:203-218) under self.lock: the record of
\* the hash is written as completed, whether or not the hash was known.
\* Then the loop continues, or the thread ends on the TypeError of
\* worker.py:64, or add_error_url(tbd_url, 404) records the url first
\* (worker.py:70-72).
Marking(t) ==
    /\ save' = mark_url_complete(save, cur[t].url, cur[t].depth)
    /\ Sync(t)
    /\ error_urls' = IF after[t] = "error_url"
                     THEN error_urls \cup {cur[t].url} ELSE error_urls
    /\ pc' = [pc EXCEPT ![t] = IF after[t] = "raise" THEN "dead" ELSE "w_get"]
    /\ cur' = [cur EXCEPT ![t] = NoEntry]
    /\ after' = [after EXCEPT ![t] = "loop"]
    /\ UNCHANGED <<politeness_delay, web, parser_vars, lock_vars, api, backup_vars, domains_to_scrape,
                   last_request_time, robots_parsers, sitemaps, subdomains,
                   simhashes, low_data_urls, robots_parsers_lock, adds, stack,
                   snap, sleep_left, scr, similar, history_vars>>

WorkerMark(t) ==
    /\ pc[t] = "w_mark" /\ lock = {}
    /\ Marking(t)
    /\ UNCHANGED lock

ToMark(t) ==
    /\ pc' = [pc EXCEPT ![t] = "w_mark"]
    /\ after' = [after EXCEPT ![t] = "loop"]

\* download(tbd_url, self.config, self.logger) is called (worker.py:82).
Download(t) == fetched' = fetched \cup {cur[t].url}

\* download raises (worker.py:81-86).
DownloadFail(t) ==
    /\ pc[t] = "w_download" /\ "download_fail" \in Outcomes(cur[t].url)
    /\ Download(t)
    /\ ToMark(t)
    /\ UNCHANGED <<politeness_delay, web, parser_vars, lock_vars, api, backup_vars, sync_vars, frontier_vars, lock, robots_parsers_lock,
                   cur, adds, stack, snap, sleep_left, scr, similar,
                   puts, gets,
                   since_return, ready_at_start, downloads,
                   since_request>>

\* A status in 300..399 with a raw response (worker.py:89-96): a Location
\* header is added at the depth of the redirecting url, then the url is
\* marked.
Redirect(t) ==
    /\ pc[t] = "w_download" /\ "redirect" \in Outcomes(cur[t].url)
    /\ Download(t)
    /\ \E location \in RedirectTargets \cup {NoUrl} :
         IF location = NoUrl
         THEN ToMark(t) /\ UNCHANGED adds
         ELSE /\ adds' = [adds EXCEPT ![t] = <<Entry(location, cur[t].depth)>>]
              /\ pc' = [pc EXCEPT ![t] = "w_adds"]
              /\ after' = after
    /\ UNCHANGED <<politeness_delay, web, parser_vars, lock_vars, api, backup_vars, sync_vars, frontier_vars, lock, robots_parsers_lock,
                   cur, stack, snap, sleep_left, scr, similar,
                   puts, gets,
                   since_return, ready_at_start, downloads,
                   since_request>>

\* A status in 300..399 on a Response whose raw_response is None
\* (utils/response.py:16-21): resp.raw_response.headers raises at
\* worker.py:91 and the thread ends with its url unmarked.
RedirectNoRaw(t) ==
    /\ pc[t] = "w_download" /\ "redirect_no_raw" \in Outcomes(cur[t].url)
    /\ Download(t)
    /\ pc' = [pc EXCEPT ![t] = "dead"]
    /\ UNCHANGED <<politeness_delay, web, parser_vars, lock_vars, api, backup_vars, sync_vars, frontier_vars, lock, robots_parsers_lock,
                   cur, adds, stack, snap, sleep_left, after, scr,
                   similar, puts, gets,
                   since_return, ready_at_start, downloads,
                   since_request>>

\* Another status than 200 (worker.py:97-101): add_error_url, under
\* self.lock, records the url when the status is >= 400; then the mark.
HttpError(t) ==
    /\ pc[t] = "w_download" /\ "error" \in Outcomes(cur[t].url)
    /\ Download(t)
    /\ lock = {}
    /\ \E status \in Statuses :
         error_urls' = IF status >= 400 THEN error_urls \cup {cur[t].url} ELSE error_urls
    /\ ToMark(t)
    /\ UNCHANGED <<politeness_delay, web, parser_vars, lock_vars, api, backup_vars, sync_vars, save, domains_to_scrape, last_request_time,
                   robots_parsers, sitemaps, subdomains, simhashes,
                   low_data_urls, lock, robots_parsers_lock, cur, adds,
                   stack, snap, sleep_left, scr, similar, puts, gets,
                   since_return, ready_at_start, downloads,
                   since_request>>

\* Status 200 with raw_response None (worker.py:104-107).
EmptyBody(t) ==
    /\ pc[t] = "w_download" /\ "empty_body" \in Outcomes(cur[t].url)
    /\ Download(t)
    /\ ToMark(t)
    /\ UNCHANGED <<politeness_delay, web, parser_vars, lock_vars, api, backup_vars, sync_vars, frontier_vars, lock, robots_parsers_lock,
                   cur, adds, stack, snap, sleep_left, scr, similar,
                   puts, gets,
                   since_return, ready_at_start, downloads,
                   since_request>>

\* scraper.scraper raises (worker.py:114-119).
ScrapeFail(t) ==
    /\ pc[t] = "w_download" /\ "scrape_fail" \in Outcomes(cur[t].url)
    /\ Download(t)
    /\ ToMark(t)
    /\ UNCHANGED <<politeness_delay, web, parser_vars, lock_vars, api, backup_vars, sync_vars, frontier_vars, lock, robots_parsers_lock,
                   cur, adds, stack, snap, sleep_left, scr, similar,
                   puts, gets,
                   since_return, ready_at_start, downloads,
                   since_request>>

\* Fewer than min_words words (worker.py:122-127): add_low_data_url, under
\* self.lock, then the mark.
LowData(t) ==
    /\ pc[t] = "w_download" /\ "low_data" \in Outcomes(cur[t].url)
    /\ Download(t)
    /\ lock = {}
    /\ \E words \in {min_words - 1} : words < min_words
    /\ low_data_urls' = low_data_urls \cup {cur[t].url}
    /\ ToMark(t)
    /\ UNCHANGED <<politeness_delay, web, parser_vars, lock_vars, api, backup_vars, sync_vars, save, domains_to_scrape, last_request_time,
                   robots_parsers, sitemaps, subdomains, simhashes,
                   error_urls, lock, robots_parsers_lock, cur, adds,
                   stack, snap, sleep_left, scr, similar, puts, gets,
                   since_return, ready_at_start, downloads,
                   since_request>>

\* The scraper returns (scraped_urls, words, simhash) with enough words, or
\* with words None (worker.py:115, 122, 129-130).
AfterScrape(t, r) ==
    IF r.simhash # << >> THEN "w_simget"
    ELSE IF r.words # << >> THEN "w_words"
    ELSE IF r.links # << >> THEN "w_adds"
    ELSE "w_mark"
Scraped(t) ==
    /\ pc[t] = "w_download" /\ "scraped" \in Outcomes(cur[t].url)
    /\ Download(t)
    /\ \E links \in OutlinkChoices, words \in {<< >>, <<min_words>>},
          simhash \in {<< >>} \cup {<<f>> : f \in Fingerprints} :
         LET r == [links |-> links, words |-> words, simhash |-> simhash]
         IN  /\ scr' = [scr EXCEPT ![t] = r]
             /\ pc' = [pc EXCEPT ![t] = AfterScrape(t, r)]
    /\ UNCHANGED <<politeness_delay, web, parser_vars, lock_vars, api, backup_vars, sync_vars, frontier_vars, lock, robots_parsers_lock,
                   cur, adds, stack, snap, sleep_left, after, similar,
                   puts, gets,
                   since_return, ready_at_start, downloads,
                   since_request>>

\* get_simhashes and is_similar (worker.py:131-132, frontier.py:156-161).
SimGet(t) ==
    /\ pc[t] = "w_simget"
    /\ similar' = [similar EXCEPT ![t] = is_similar(scr[t].simhash[1], simhashes)]
    /\ pc' = [pc EXCEPT ![t] = "w_simadd"]
    /\ UNCHANGED <<politeness_delay, web, parser_vars, lock_vars, api, backup_vars, sync_vars, frontier_vars, lock, robots_parsers_lock,
                   cur, adds, stack, snap, sleep_left, after, scr,
                   history_vars>>

\* A loop that would pass the scraped urls on at depth + 2.
StartAddsTwoDeeper(t) ==
    LET links == scr[t].links
    IN  /\ adds' = [adds EXCEPT ![t] =
              [i \in 1..Len(links) |-> Entry(links[i], cur[t].depth + 2)]]
        /\ pc' = [pc EXCEPT ![t] = IF links = << >> THEN "w_mark" ELSE "w_adds"]
        /\ scr' = [scr EXCEPT ![t] = NoScrape]
\* The scraped urls become the add_url calls to make, at depth + 1
\* (worker.py:144-146); with none the mark follows at once.
StartAdds(t) ==
    LET links == scr[t].links
    IN  /\ adds' = [adds EXCEPT ![t] =
              [i \in 1..Len(links) |-> Entry(links[i], cur[t].depth + 1)]]
        /\ pc' = [pc EXCEPT ![t] = IF links = << >> THEN "w_mark" ELSE "w_adds"]
        /\ scr' = [scr EXCEPT ![t] = NoScrape]

\* add_simhash(simhash, tbd_url) (worker.py:133, frontier.py:163-172): the
\* method takes (url, simhash), so the entry is keyed by tbd_url and holds
\* the fingerprint.  A similar page is marked (worker.py:135-138).
SimAdd(t) ==
    /\ pc[t] = "w_simadd"
    /\ simhashes' = Set(simhashes, cur[t].url, scr[t].simhash[1])
    /\ IF similar[t]
       THEN /\ pc' = [pc EXCEPT ![t] = "w_mark"]
            /\ scr' = [scr EXCEPT ![t] = NoScrape]
            /\ adds' = adds
       ELSE IF scr[t].words # << >>
       THEN /\ pc' = [pc EXCEPT ![t] = "w_words"]
            /\ UNCHANGED <<scr, adds>>
       ELSE StartAdds(t)
    /\ similar' = [similar EXCEPT ![t] = FALSE]
    /\ UNCHANGED <<politeness_delay, web, parser_vars, lock_vars, api, backup_vars, sync_vars, save, domains_to_scrape, last_request_time,
                   robots_parsers, sitemaps, subdomains, low_data_urls,
                   error_urls, lock, robots_parsers_lock, cur, stack,
                   snap, sleep_left, after, history_vars>>

\* add_words (worker.py:141-142, frontier.py:220-232) takes self.lock; the
\* word counts it updates are read by no other operation.
AddWords(t) ==
    /\ pc[t] = "w_words" /\ lock = {}
    /\ StartAdds(t)
    /\ UNCHANGED <<politeness_delay, web, parser_vars, lock_vars, api, backup_vars, sync_vars, frontier_vars, lock, robots_parsers_lock,
                   cur, stack, snap, sleep_left, after, similar,
                   history_vars>>

\* ------------------------------------------------------ Crawler and time
\* Crawler.start_async (crawler/__init__.py:52-56) once the Frontier is
\* constructed.
Start ==
    /\ pc[Main] = "m_start"
    /\ pc' = [t \in Threads |-> IF t = Main THEN "m_join" ELSE "w_get"]
    /\ UNCHANGED <<politeness_delay, web, parser_vars, lock_vars, api, backup_vars, sync_vars, frontier_vars, lock, robots_parsers_lock,
                   cur, adds, stack, snap, sleep_left, after, scr,
                   similar, history_vars>>

\* Crawler.join (crawler/__init__.py:84-85) returns when every worker
\* thread has ended, by leaving its loop or by an exception.
Join ==
    /\ pc[Main] = "m_join"
    /\ \A w \in Workers : pc[w] \in {"exit", "dead"}
    /\ pc' = [pc EXCEPT ![Main] = "m_done"]
    /\ UNCHANGED <<politeness_delay, web, parser_vars, lock_vars, api, backup_vars, sync_vars, frontier_vars, lock, robots_parsers_lock,
                   cur, adds, stack, snap, sleep_left, after, scr,
                   similar, history_vars>>

\* Time passes: one unit more since every recorded time, one unit less of
\* every sleep.
Older(f) ==
    [k \in DOMAIN f |-> IF f[k] < politeness_delay THEN f[k] + 1 ELSE f[k]]
Tick ==
    /\ last_request_time' = Older(last_request_time)
    /\ since_return' = Older(since_return)
    /\ since_request' = Older(since_request)
    /\ sleep_left' = [t \in Workers |-> IF sleep_left[t] > 0 THEN sleep_left[t] - 1 ELSE 0]
    /\ UNCHANGED <<politeness_delay, web, parser_vars, lock_vars, api, backup_vars, sync_vars, save, domains_to_scrape, robots_parsers,
                   sitemaps, subdomains, simhashes, low_data_urls,
                   error_urls, lock, robots_parsers_lock, pc, cur, adds,
                   stack, snap, after, scr, similar, puts, gets, fetched,
                   ready_at_start, downloads>>

Next ==
    \/ \E t \in Threads : AddCall(t) \/ AddRobots(t) \/ AddSitemap(t)
                            \/ AddNested(t) \/ AddCommit(t)
    \/ \E t \in Workers : GetEnter(t) \/ GetSkip(t) \/ GetReturn(t) \/ GetEmpty(t)
                            \/ GetDel(t) \/ GetSleep(t) \/ GetWake(t)
    \/ \E t \in Workers : WorkerCheck(t) \/ WorkerMark(t) \/ DownloadFail(t)
                            \/ Redirect(t) \/ RedirectNoRaw(t) \/ HttpError(t)
                            \/ EmptyBody(t) \/ ScrapeFail(t) \/ LowData(t)
                            \/ Scraped(t) \/ SimGet(t) \/ SimAdd(t) \/ AddWords(t)
    \/ Start \/ Join \/ Tick

Spec == Init /\ [][Next]_vars

\* ------------------------------------------- a client that calls add_url
\* add_url as the tests call it (tests/simple_frontier_test.py:89-100): on a
\* Frontier built with restart=True and no seed, a client calls
\* add_url(url, depth) up to MaxCalls times, each call after the one before
\* has returned.  The urls: two pages, one of them also written with a
\* trailing "/" and with the scheme https, a page under the path robots.txt
\* denies, a url of the other host, and the robots.txt url of the wiki
\* itself.
uASlash == Url("http", "poewiki.net", <<"wiki", "A", "">>, "")
\* "http://poewiki.net/wiki/A/#top": a trailing slash and a fragment.
uASlashTop == Url("http", "poewiki.net", <<"wiki", "A", "">>, "top")
\* "http://poewiki.net/wiki/2022/07/15": a calendar path, a trap.
uTrap == Url("http", "poewiki.net", <<"wiki", "2022", "07", "15">>, "")
ApiUrls == {uA, uASlash, uASlashTop, uAHttps, uB, uPrivate, uTrap, uX,
            RobotsUrl("poewiki.net")}
ApiDepths == {0, 1}

AddInit ==
    /\ last_backup_time = 0 /\ backups = NoBackup /\ pickled = NoPickled
    /\ NoParse /\ NoLocking
    /\ syncing = {}
    /\ politeness_delay \in 0..MaxDelay
    /\ web \in Webs
    /\ api = NoCall
    /\ save = << >> /\ disk = << >>
    /\ domains_to_scrape = << >>
    /\ last_request_time = << >>
    /\ robots_parsers = << >>
    /\ sitemaps = << >>
    /\ subdomains = [h \in Hosts |-> {}]
    /\ simhashes = << >>
    /\ low_data_urls = {}
    /\ error_urls = {}
    /\ lock = {}
    /\ robots_parsers_lock = {}
    /\ pc = [t \in Threads |-> IF t = Main THEN "m_idle" ELSE "w_idle"]
    /\ cur = [t \in Workers |-> NoEntry]
    /\ adds = [t \in Threads |-> << >>]
    /\ stack = [t \in Threads |-> << >>]
    /\ snap = [t \in Workers |-> << >>]
    /\ sleep_left = [t \in Workers |-> 0]
    /\ after = [t \in Workers |-> "loop"]
    /\ scr = [t \in Workers |-> NoScrape]
    /\ similar = [t \in Workers |-> FALSE]
    /\ puts = [h \in Hosts |-> << >>]
    /\ gets = [h \in Hosts |-> << >>]
    /\ since_return = << >>
    /\ fetched = {}
    /\ ready_at_start = [t \in Workers |-> {}]
    /\ downloads = << >>
    /\ since_request = << >>

\* The client is about to call add_url(url, depth).
ApiCall(url, depth) ==
    /\ pc[Main] = "m_idle" /\ api.n < MaxCalls
    /\ api' = [n |-> api.n + 1, op |-> "add_url", url |-> url, depth |-> depth,
               prev |-> api.url, save |-> save, queues |-> domains_to_scrape,
               robots |-> robots_parsers, subdomains |-> subdomains]
    /\ adds' = [adds EXCEPT ![Main] = <<Entry(url, depth)>>]
    /\ pc' = [pc EXCEPT ![Main] = "m_api"]
    /\ UNCHANGED <<politeness_delay, web, parser_vars, lock_vars, backup_vars, sync_vars, frontier_vars, lock,
                   robots_parsers_lock,
                   cur, stack, snap, sleep_left, after, scr, similar,
                   history_vars>>

AddNext ==
    \/ \E url \in ApiUrls, depth \in ApiDepths : ApiCall(url, depth)
    \/ AddCall(Main) \/ AddRobots(Main) \/ AddSitemap(Main)
    \/ AddNested(Main) \/ AddCommit(Main)
    \/ Tick

AddSpec == AddInit /\ [][AddNext]_vars

\* ------------------------------------------------ a run that is resumed
\* The process ends with the index closed, and a new one constructs the
\* Frontier with restart=False (frontier.py:59-66, 68-82, 416-454).
\* Every write to the shelve is followed by sync, so the new process finds
\* the index as it was; the queues, locks and threads start afresh.

\* A test that would put every record back into a queue.
ToResumeAll(record) == TRUE
\* _parse_save_file line 76: the records that go back into a queue.
ToResume(record) == ~record.completed /\ is_valid(record.url)

\* The orders in which save.values() can list the keys of a set.
Orders(keys) ==
    {o \in [1..Cardinality(keys) -> keys] :
        \A i \in DOMAIN o, j \in DOMAIN o : o[i] = o[j] => i = j}
\* _parse_save_file lines 75-79 over the keys in the order given; the
\* queue is keyed by urlparse(url).hostname, which for the hosts of this
\* model is the netloc.
RECURSIVE Requeue(_, _)
Requeue(d, order) ==
    IF order = << >> THEN d
    ELSE LET r == save[Head(order)]
         IN  Requeue(Put(d, r.url.netloc, Entry(r.url, r.depth)), Tail(order))

\* handle_shelves loads the pickled maps when the files are there
\* (pickle_fields wrote them) and starts from empty ones otherwise; every
\* loaded time lies further back than politeness_delay.  low_data_urls and
\* error_urls are set in __init__ and not loaded.  With an index that is
\* not empty no seed is added.
Resume ==
    /\ pc[Main] = "m_idle" /\ api.n > 0 /\ save # << >>
    /\ \E order \in Orders({k \in DOMAIN save : ToResume(save[k])}) :
          /\ domains_to_scrape' = Requeue(<< >>, order)
          /\ puts' = [h \in Hosts |->
                 LET mine == SelectSeq(order, LAMBDA k : save[k].url.netloc = h)
                 IN  [i \in 1..Len(mine) |-> save[mine[i]].url]]
    /\ LET loaded == backups.written
       IN  /\ last_request_time' =
                 IF loaded THEN [k \in backups.last_request_time |-> politeness_delay]
                 ELSE << >>
           /\ robots_parsers' = IF loaded THEN backups.robots_parsers ELSE << >>
           /\ sitemaps' = IF loaded THEN backups.sitemaps ELSE << >>
           /\ subdomains' = IF loaded THEN backups.subdomains
                            ELSE [h \in Hosts |-> {}]
           /\ simhashes' = IF loaded THEN backups.simhashes ELSE << >>
    /\ low_data_urls' = {} /\ error_urls' = {}
    /\ last_backup_time' = 0
    /\ pc' = [pc EXCEPT ![Main] = "m_resumed"]
    /\ gets' = [h \in Hosts |-> << >>]
    /\ since_return' = << >> /\ downloads' = << >> /\ since_request' = << >>
    /\ UNCHANGED <<politeness_delay, web, parser_vars, lock_vars, api, backups, pickled, sync_vars, save,
                   lock,
                   robots_parsers_lock, cur, adds, stack, snap, sleep_left,
                   after, scr, similar, fetched, ready_at_start>>

\* The client calls pickle_fields() and the dump is due.
PickleFields ==
    /\ pc[Main] = "m_idle" /\ last_backup_time = 0
    /\ pickle_fields
    /\ UNCHANGED <<politeness_delay, web, parser_vars, lock_vars, api, sync_vars, frontier_vars, lock,
                   robots_parsers_lock, thread_vars, history_vars>>

\* The client's call add_low_data_url(url) or add_error_url(url, status)
\* (frontier.py:181-201), under self.lock: the url joins low_data_urls, or
\* error_urls when status >= 400.
ApiBad(op, url, status) ==
    /\ pc[Main] = "m_idle" /\ api.n < MaxCalls
    /\ lock = {}
    /\ api' = [n |-> api.n + 1, op |-> op, url |-> url, depth |-> 0,
               prev |-> api.url, save |-> save, queues |-> domains_to_scrape,
               robots |-> robots_parsers, subdomains |-> subdomains]
    /\ low_data_urls' = IF op = "add_low_data_url"
                        THEN low_data_urls \cup {url} ELSE low_data_urls
    /\ error_urls' = IF op = "add_error_url" /\ status >= 400
                     THEN error_urls \cup {url} ELSE error_urls
    /\ UNCHANGED <<politeness_delay, web, parser_vars, lock_vars, backup_vars, sync_vars, save,
                   domains_to_scrape,
                   last_request_time, robots_parsers, sitemaps, subdomains,
                   simhashes, lock, robots_parsers_lock, thread_vars,
                   history_vars>>

ResumeNext ==
    \/ AddNext
    \/ \E url \in ApiUrls, status \in Statuses :
          ApiBad("add_low_data_url", url, status) \/ ApiBad("add_error_url", url, status)
    \/ PickleFields
    \/ Resume

ResumeSpec == AddInit /\ [][ResumeNext]_vars

\* ------------------------------------------- a host that never runs out
\* The scheduler under a crawl that does not end: a host answers every
\* request with a redirect to a page of its own that the crawler has not
\* met (worker.py:89-95 adds the target at the depth of the redirecting
\* url, so max_depth never cuts the chain).  get_tbd_url reads nothing of
\* a url, so the pages of such a chain are written as one url.
PollSeeds == <<uA, uB, uX>>

\* Frontier.__init__ with restart=True and PollSeeds as config.seed_urls,
\* every robots.txt empty, followed by Crawler.start_async.
PollInit ==
    LET recs == {Record(RobotsUrl(h), 1, TRUE) : h \in Hosts}
                  \cup {Record(PollSeeds[i], 0, FALSE) : i \in 1..Len(PollSeeds)}
    IN
    /\ last_backup_time = 0 /\ backups = NoBackup /\ pickled = NoPickled
    /\ NoParse /\ NoLocking
    /\ syncing = {}
    /\ politeness_delay \in 0..MaxDelay
    /\ save = [k \in {get_urlhash(r.url) : r \in recs} |->
                  CHOOSE r \in recs : get_urlhash(r.url) = k]
    /\ disk = save
    /\ domains_to_scrape =
           <<[domain |-> "poewiki.net", queue |-> <<Entry(uA, 0), Entry(uB, 0)>>],
             [domain |-> "b.net", queue |-> <<Entry(uX, 0)>>]>>
    /\ last_request_time = [h \in Hosts |-> 0]
    /\ robots_parsers = [h \in Hosts |-> EmptyParser]
    /\ sitemaps = << >>
    /\ subdomains = [h \in Hosts |->
                        {PollSeeds[i] : i \in {j \in 1..Len(PollSeeds) :
                                                  PollSeeds[j].netloc = h}}]
    /\ simhashes = << >>
    /\ low_data_urls = {}
    /\ error_urls = {}
    /\ lock = {}
    /\ robots_parsers_lock = {}
    /\ pc = [t \in Threads |-> IF t = Main THEN "m_join" ELSE "w_get"]
    /\ cur = [t \in Workers |-> NoEntry]
    /\ adds = [t \in Threads |-> << >>]
    /\ stack = [t \in Threads |-> << >>]
    /\ snap = [t \in Workers |-> << >>]
    /\ sleep_left = [t \in Workers |-> 0]
    /\ after = [t \in Workers |-> "loop"]
    /\ scr = [t \in Workers |-> NoScrape]
    /\ similar = [t \in Workers |-> FALSE]
    /\ puts = [h \in Hosts |-> SelectSeq(PollSeeds, LAMBDA u : u.netloc = h)]
    /\ gets = [h \in Hosts |-> << >>]
    /\ since_return = << >>
    /\ fetched = {}
    /\ ready_at_start = [t \in Workers |-> {}]
    /\ web = "wiki"
    /\ api = NoCall
    /\ downloads = << >>
    /\ since_request = << >>

\* get_tbd_url returns a url (frontier.py:103-106); the record of what was
\* returned is not kept in a crawl without end.
PollReturn(t) ==
    /\ Take(t)
    /\ UNCHANGED <<gets, since_return>>

\* worker.py:82, 89-95: the download is answered with a redirect to a new
\* page of the same host; add_url, the host known and the hash new, writes
\* the record and puts the url into the queue of the host
\* (frontier.py:130-154); then the redirecting url is marked.
PollRedirect(t) ==
    /\ pc[t] = "w_download"
    /\ Download(t)
    /\ robots_parsers_lock = {}
    /\ LET u == cur[t].url
       IN  /\ save' = Set(save, get_urlhash(u), Record(u, cur[t].depth, FALSE))
           /\ domains_to_scrape' = Put(domains_to_scrape, u.netloc, cur[t])
    /\ ToMark(t)
    /\ Sync(t)
    /\ UNCHANGED <<politeness_delay, web, parser_vars, lock_vars, api, backup_vars, last_request_time, robots_parsers,
                   sitemaps, subdomains, simhashes, low_data_urls,
                   error_urls, lock, robots_parsers_lock, cur, adds, stack,
                   snap, sleep_left, scr, similar, puts, gets,
                   since_return, ready_at_start, downloads,
                   since_request>>

\* The steps of worker t in such a crawl: get_tbd_url, the tests before
\* the download, a download that fails or redirects, mark_url_complete.
PollStep(t) ==
    \/ GetEnter(t) \/ GetSkip(t) \/ PollReturn(t) \/ GetEmpty(t)
    \/ GetDel(t) \/ GetSleep(t) \/ GetWake(t)
    \/ WorkerCheck(t) \/ PollRedirect(t) \/ DownloadFail(t) \/ ScrapeFail(t)
    \/ WorkerMark(t)

PollNext == (\E t \in Workers : PollStep(t)) \/ Tick

\* Every worker thread keeps running and gets each lock it waits for; time
\* passes.
PollSpec ==
    /\ PollInit /\ [][PollNext]_vars
    /\ \A t \in Workers : SF_vars(PollStep(t))
    /\ WF_vars(Tick)

\* ------------------------------------------------------------ properties
\* The entries in the host queues, the entries workers hold between the
\* return of get_tbd_url and mark_url_complete, and the open records.
Queued ==
    UNION {{domains_to_scrape[i].queue[j] : j \in 1..Len(domains_to_scrape[i].queue)} :
              i \in 1..Len(domains_to_scrape)}
Held == {cur[t] : t \in Workers} \ {NoEntry}
Open == {k \in DOMAIN save : ~save[k].completed}
AllQueuesEmpty == Queued = {}
Returned == UNION {{gets[h][i] : i \in 1..Len(gets[h])} : h \in Hosts}
\* Whether the sequence a is b with some of its places left out.
RECURSIVE IsSubseq(_, _)
IsSubseq(a, b) ==
    IF a = << >> THEN TRUE
    ELSE IF b = << >> THEN FALSE
    ELSE IF Head(a) = Head(b) THEN IsSubseq(Tail(a), Tail(b))
    ELSE IsSubseq(a, Tail(b))
QueueUrls(h) ==
    IF h \in Keys(domains_to_scrape)
    THEN [j \in 1..Len(QueueOf(domains_to_scrape, h)) |->
             QueueOf(domains_to_scrape, h)[j].url]
    ELSE << >>

\* C1 (monotone completion, I1): no step takes a record of the index whose
\* completed flag is true to a record whose completed flag is false.
C1_MonotoneCompletion ==
    [][\A k \in DOMAIN save :
          save[k].completed => (k \in DOMAIN save' /\ save'[k].completed)]_vars

\* C2 (unique enqueue, I2): over the run, no two puts into the host queues
\* are of urls with the same hash.
C2_UniqueEnqueue ==
    \A h1 \in Hosts, h2 \in Hosts :
      \A i \in 1..Len(puts[h1]), j \in 1..Len(puts[h2]) :
          get_urlhash(puts[h1][i]) = get_urlhash(puts[h2][j]) => (h1 = h2 /\ i = j)

\* C3 (index/queue agreement, first half): every entry in a host queue has
\* a record under the hash of its url, and that record is not completed.
C3_QueuedIsOpen ==
    \A e \in Queued :
        /\ get_urlhash(e.url) \in DOMAIN save
        /\ ~save[get_urlhash(e.url)].completed

\* C4 (index/queue agreement, second half): every record that is not
\* completed is the record of a queued url or of a url a worker holds.
C4_OpenIsQueuedOrHeld ==
    \A k \in Open : \E e \in Queued \cup Held : get_urlhash(e.url) = k

\* C5 (politeness, P1): whenever get_tbd_url returns a url of a host it has
\* returned a url of before, at least politeness_delay has passed since
\* that earlier return.
C5_Politeness ==
    [][\A h \in Hosts :
          (Len(gets'[h]) > Len(gets[h]) /\ h \in DOMAIN since_return)
              => since_return[h] >= politeness_delay]_vars
\* get_tbd_url has returned two urls of one host under a positive delay.
C5_Witness ==
    politeness_delay > 0 /\ \E h \in Hosts : Len(gets[h]) >= 2

\* C6: get_tbd_url returns (None, None) only with every host queue empty,
\* and a call that finds every host queue empty does not sleep.
C6_NoneOnlyWhenEmptyWithoutSleep ==
    [][\A t \in Workers :
          /\ (pc[t] # "exit" /\ pc'[t] = "exit") => AllQueuesEmpty
          /\ (pc[t] = "g_for" /\ pc'[t] = "g_sleep" /\ politeness_delay > 0)
                 => ~AllQueuesEmpty]_vars

\* C7 (no starvation, P2): when get_tbd_url keeps being called, a host
\* with a queued url is in time handed a url of, or stops having one queued.
Polled == \E t \in Workers : pc[t] = "g_for"
Pending(h) == h \in Keys(domains_to_scrape) /\ QueueOf(domains_to_scrape, h) # << >>
Served(h) == \E t \in Workers : pc[t] = "w_check" /\ cur[t].url.netloc = h
C7_NoStarvation ==
    ([]<>Polled) => \A h \in Hosts : (Pending(h) ~> (Served(h) \/ ~Pending(h)))

\* C8 (ordering): the urls returned of a host, followed by the urls in its
\* queue, come in the order add_url put them; and the host of a returned
\* url is created before every other host that was ready with a queued url
\* when the call copied the table.
FifoOrder == \A h \in Hosts : IsSubseq(gets[h] \o QueueUrls(h), puts[h])
TieBreak ==
    \A t \in Workers :
        (pc[t] = "g_for" /\ pc'[t] = "w_check")
            => \A d \in ready_at_start[t] :
                   \/ d = cur'[t].url.netloc
                   \/ \E i \in 2..Len(snap[t]) : snap[t][i] = d
C8_Ordering == [][FifoOrder' /\ TieBreak]_vars
\* A call met two ready hosts with queued urls and returned a url, and two
\* urls of one host have been returned.
C8_Witness ==
    /\ \E t \in Workers : pc[t] = "w_check" /\ Cardinality(ready_at_start[t]) >= 2
    /\ \E h \in Hosts : Len(gets[h]) >= 2 /\ gets[h][1] # gets[h][2]

\* C9 (drain on shutdown): once every worker has left its loop and join
\* has returned, every host queue is empty and every record is completed.
C9_DrainOnShutdown ==
    (pc[Main] = "m_done" /\ \A w \in Workers : pc[w] = "exit")
        => (AllQueuesEmpty /\ Open = {})

\* C10 (no retry, always shelved): every url get_tbd_url has returned is
\* completed in the index unless a worker still holds it and has not come
\* back to get_tbd_url; and no worker is at the download of a url that
\* has been downloaded before.
InGet == {"w_get", "g_for", "g_del", "g_sleep", "exit"}
C10_NoRetryAlwaysShelved ==
    /\ \A u \in Returned :
          \/ get_urlhash(u) \in DOMAIN save /\ save[get_urlhash(u)].completed
          \/ \E t \in Workers : cur[t].url = u /\ pc[t] \notin InGet
    /\ \A t \in Workers : pc[t] = "w_download" => cur[t].url \notin fetched


\* C11 (error containment): no error kind ends a worker thread; a worker
\* leaves its loop only after get_tbd_url returned (None, None), so no worker
\* is ever stopped by an exception raised inside the loop body.
C11_ErrorContainment ==
    \A w \in Workers : pc[w] # "dead"


\* The client's last add_url call has returned; what it was called with.
Finished == pc[Main] = "m_idle" /\ api.op = "add_url"
CalledUrl == Fragmentless(normalize(api.url))
CalledHash == get_urlhash(CalledUrl)
Known == CalledHash \in DOMAIN api.save
NewHost == CalledUrl.netloc \notin DOMAIN api.robots
\* The call got as far as the robots test and the parser denied the path.
Denied ==
    /\ ~Known /\ CalledUrl.netloc \in DOMAIN robots_parsers
    /\ ~can_fetch(robots_parsers[CalledUrl.netloc], CalledUrl.path)
\* The queue entries of a url across the host queues.
EntriesOf(u) == {<<i, j>> \in (1..Len(domains_to_scrape)) \X (1..4) :
                    /\ j <= Len(domains_to_scrape[i].queue)
                    /\ get_urlhash(domains_to_scrape[i].queue[j].url) = get_urlhash(u)}

\* C12 (robots deny, frame effect): an add_url call for a url whose path
\* robots.txt denies, the first url of its host included, leaves the index
\* exactly as it was and the host of the url with no queued url.
C12_DeniedLeavesNoTrace ==
    (Finished /\ Denied) =>
        /\ save = api.save
        /\ QueueUrls(CalledUrl.netloc) = << >>

\* A repeated add_url is a no-op: a call for a url whose hash is in the
\* index leaves index, queues, robots cache and subdomain map as they were.
ReaddIsNoOp ==
    (Finished /\ Known) =>
        /\ save = api.save /\ domains_to_scrape = api.queues
        /\ robots_parsers = api.robots /\ subdomains = api.subdomains

\* C13 (idempotent re-add): a call for a url whose hash is in the index
\* changes nothing, so add(u); add(u) with a url robots.txt allows leaves
\* exactly one queue entry for u.
C13_AddTwiceOneEntry ==
    /\ ReaddIsNoOp
    /\ (Finished /\ api.n >= 2 /\ normalize(api.prev) = normalize(api.url)
          /\ can_fetch(robots_parsers[CalledUrl.netloc], CalledUrl.path))
       => Cardinality(EntriesOf(CalledUrl)) = 1


\* C14 (robots fetched once, I4): under every interleaving of the add_url
\* calls of the threads, the robots.txt of a host is downloaded at most
\* once, and a host's cached parser is never replaced: every later lookup
\* finds the parser the one download built.
C14_RobotsOnce ==
    [][/\ \A h \in Hosts :
             RobotsUrl(h) \in DOMAIN downloads' => downloads'[RobotsUrl(h)] <= 1
       /\ \A h \in DOMAIN robots_parsers :
             h \in DOMAIN robots_parsers' /\ robots_parsers'[h] = robots_parsers[h]]_vars
\* Both hosts have had their robots.txt downloaded, and two workers are
\* adding urls at once: one inside add_url, the other with calls to make.
C14_Witness ==
    /\ \A h \in Hosts : RobotsUrl(h) \in DOMAIN downloads
    /\ \E t1 \in Workers, t2 \in Workers :
          /\ t1 # t2 /\ pc[t1] = "w_adds" /\ pc[t2] = "w_adds"
          /\ stack[t1] # << >> /\ adds[t2] # << >>


\* The sitemap urls of the sites.
SitemapUrls == {uSitemap, uIndex}

\* C15 (sitemap ingestion terminates): every sitemap url is downloaded at
\* most once in a run, also when it is met as a <sitemap><loc> child of an
\* index, so get_urls_from_sitemap returns on every finite sitemap graph,
\* an index that lists itself included.
C15_SitemapOnce ==
    \A sm \in SitemapUrls : sm \in DOMAIN downloads => downloads[sm] <= 1


\* The first call made on the empty Frontier was add_url(seed, 0) with a
\* seed of the site "catalog" that robots.txt allows and the sitemap does
\* not list: a new host with one sitemap of three valid, allowed pages.
SeedOfCatalog ==
    /\ Finished /\ api.n = 1 /\ api.depth = 0 /\ web = "catalog"
    /\ CalledUrl.netloc = "poewiki.net"
    /\ \A i \in 1..Len(CatalogPages) :
          get_urlhash(CatalogPages[i]) # CalledHash
    /\ can_fetch(robots_parsers["poewiki.net"], CalledUrl.path)

\* C16 (sitemap ingestion): after add_url(seed, 0) for a new host whose
\* robots.txt lists one sitemap with three distinct valid, allowed urls
\* other than the seed, the frontier holds exactly four open urls of that
\* host, the seed at depth 0 and the three at depth 1, each put into the
\* queue exactly once.
C16_SitemapIngestion ==
    SeedOfCatalog =>
        /\ {save[k] : k \in Open} =
               {Record(CalledUrl, 0, FALSE)}
                 \cup {Record(CatalogPages[i], 1, FALSE) : i \in 1..Len(CatalogPages)}
        /\ Cardinality(Open) = 4
        /\ Len(puts["poewiki.net"]) = 4 /\ Len(QueueUrls("poewiki.net")) = 4
        /\ \A k \in Open : Cardinality(EntriesOf(save[k].url)) = 1
        /\ \A e \in Queued : e = Entry(save[get_urlhash(e.url)].url,
                                       save[get_urlhash(e.url)].depth)
C16_Witness ==
    SeedOfCatalog /\ CalledUrl = uA /\ api.url = uASlash
      /\ QueueUrls("poewiki.net") = CatalogPages \o <<uA>>


\* C17 (duplicate suppression): when the page of a url is a near-duplicate
\* of a stored one, the worker goes on to mark the url complete, passes
\* none of its outlinks to add_url, and leaves the similarity index as it
\* was.
C17_DuplicateSuppressed ==
    [][\A t \in Workers :
          (pc[t] = "w_simadd" /\ similar[t] /\ pc'[t] # "w_simadd")
            => /\ pc'[t] = "w_mark" /\ adds'[t] = << >>
               /\ simhashes' = simhashes]_vars

\* The urls the similarity index holds for a fingerprint.
Holders(f) == {k \in DOMAIN simhashes : simhashes[k] = f}

\* C18 (first writer wins, I5): the similarity index holds at most one url
\* for a fingerprint, and once it holds a url for a fingerprint no later
\* add_simhash changes that.
C18_FirstWriterWins ==
    [][\A f \in Fingerprints :
          /\ Cardinality(Holders(f)') <= 1
          /\ Holders(f) # {} => Holders(f)' = Holders(f)]_vars


\* The Frontier has been constructed with restart=False.
Resumed == pc[Main] = "m_resumed"
\* The number of entries in the host queues.
RECURSIVE QueuedCount(_)
QueuedCount(d) == IF d = << >> THEN 0 ELSE Len(Head(d).queue) + QueuedCount(Tail(d))
OpenEntries == {Entry(save[k].url, save[k].depth) : k \in Open}

\* C19 as stated (resume reproduces the open set): after a construction
\* with restart=False the host queues hold exactly the records that are
\* not completed, each once, none missing, none completed.
C19_ResumeOpenSet ==
    Resumed => /\ Queued = OpenEntries
               /\ QueuedCount(domains_to_scrape) = Cardinality(Open)

\* C19 (amended): after a construction with restart=False over an index
\* that is not empty, the host queues hold exactly the records that are
\* not completed and whose url passes is_valid, each once and none
\* completed; a record that is not completed and whose url fails is_valid
\* stays in the index and is in no queue.
C19_ResumeOpenValidSet ==
    Resumed =>
        /\ Queued = {e \in OpenEntries : is_valid(e.url)}
        /\ QueuedCount(domains_to_scrape) = Cardinality(Queued)
        /\ \A e \in Queued : ~save[get_urlhash(e.url)].completed
\* A resumed Frontier whose index holds a completed record, a queued open
\* one, and an open one that is_valid rejects.
C19_Witness ==
    /\ Resumed
    /\ \E k \in DOMAIN save : save[k].completed
    /\ \E e \in Queued : e \in OpenEntries
    /\ \E e \in OpenEntries : e \notin Queued


\* The Frontier downloads a robots.txt or a sitemap from the domain in
\* this step.
FrontierRequest(domain) ==
    \E u \in DOMAIN downloads' :
        /\ u.netloc = domain
        /\ u \in DOMAIN downloads => downloads'[u] > downloads[u]

\* C20 (politeness of every request): two successive requests to a host
\* are at least politeness_delay apart; here for the requests the Frontier
\* makes itself, the downloads of robots.txt and of sitemaps.
C20_EveryRequestPolite ==
    [][\A domain \in Hosts :
          (FrontierRequest(domain) /\ domain \in DOMAIN since_request)
            => since_request[domain] >= politeness_delay]_vars


\* The client's call was for a url that is_valid accepts and the parser of
\* its host allows, and it has returned: the call Worker.run makes for
\* every url scraper.scraper hands it (worker.py:144-145, scraper.py:39)
\* before it marks the page complete.
AddedOutlink ==
    /\ Finished /\ is_valid(api.url)
    /\ CalledUrl.netloc \in DOMAIN robots_parsers
    /\ can_fetch(robots_parsers[CalledUrl.netloc], CalledUrl.path)

ApiMark(url, depth) ==
    /\ pc[Main] = "m_idle" /\ api.n < MaxCalls
    /\ lock = {}
    /\ api' = [n |-> api.n + 1, op |-> "mark_url_complete", url |-> url,
               depth |-> depth, prev |-> api.url, save |-> save,
               queues |-> domains_to_scrape, robots |-> robots_parsers,
               subdomains |-> subdomains]
    /\ save' = mark_url_complete(save, url, depth)
    /\ Sync(Main)
    /\ UNCHANGED <<politeness_delay, web, parser_vars, lock_vars, backup_vars, domains_to_scrape,
                   last_request_time,
                   robots_parsers, sitemaps, subdomains, simhashes,
                   low_data_urls, error_urls, lock, robots_parsers_lock,
                   thread_vars, history_vars>>

MarkNext ==
    \/ AddNext
    \/ \E url \in ApiUrls, depth \in ApiDepths : ApiMark(url, depth)

MarkSpec == AddInit /\ [][MarkNext]_vars

\* The last client call was mark_url_complete and it has returned.
Marked == pc[Main] = "m_idle" /\ api.op = "mark_url_complete"

\* C22: mark_url_complete never fails: whether or not the hash of the url
\* was in the index, the call returns, and afterwards the record under the
\* hash of the url is the url with its depth and completed = true.
C22_MarkNeverFails ==
    Marked =>
        /\ get_urlhash(api.url) \in DOMAIN save
        /\ save[get_urlhash(api.url)] = Record(api.url, api.depth, TRUE)

\* A mark of a url whose hash was not in the index has returned.
C22_Witness ==
    /\ Marked /\ get_urlhash(api.url) \notin DOMAIN api.save
    /\ save[get_urlhash(api.url)].completed

\* C23: completion provenance: every completed record of the index is the
\* record of a url some worker received from get_tbd_url (and then marked);
\* nothing else writes a completed record.
C23_CompletionProvenance ==
    \A k \in DOMAIN save : save[k].completed => save[k].url \in Returned

\* --------------------------------------------------------------- locks
\* The steps in which thread t acquires self.lock: download_robots_txt_
\* parser_for_domain (frontier.py:277), get_tbd_url (frontier.py:91) and
\* mark_url_complete (frontier.py:212).
TakesLock(t) ==
    \/ AddRobots(t)
    \/ t \in Workers /\ (GetEnter(t) \/ WorkerMark(t))

\* C24: lock order: self.lock comes before robots_parsers_lock, so no
\* thread acquires self.lock while it holds robots_parsers_lock.
C24_LockOrder ==
    [][\A t \in Threads : TakesLock(t) => t \notin robots_parsers_lock]_vars

\* The steps in which thread t calls download: of robots.txt
\* (frontier.py:291), of a sitemap (get_urls_from_sitemap) and of a page
\* (worker.py:82).
Downloads(t) ==
    \/ (AddRobots(t) \/ AddSitemap(t)) /\ downloads' # downloads
    \/ t \in Workers /\ pc[t] = "w_download" /\ pc'[t] # "w_download"

\* C25: no lock across network I/O: a thread that downloads robots.txt, a
\* sitemap or a page holds no lock of the Frontier while it does.
C25_NoLockAcrossIO ==
    [][\A t \in Threads :
          Downloads(t) => t \notin (lock \cup robots_parsers_lock)]_vars

\* The steps of add_url that read or write the index, the host queues and
\* the subdomain map: the membership test on entry (frontier.py:132) and
\* the subdomain, index and queue writes (frontier.py:143-154).
AddTouches(t) == AddCall(t) \/ AddNested(t) \/ AddCommit(t)

\* C26: scheduler-lock mutual exclusion: add_url's membership test, index
\* write and enqueue never happen while another thread is inside
\* get_tbd_url or mark_url_complete, that is, while another thread holds
\* self.lock.
C26_LockMutualExclusion ==
    [][\A t \in Threads : AddTouches(t) => lock \subseteq {t}]_vars

\* Worker t has called download for its url and the call has not returned
\* (worker.py:82).
InDownload(t) == pc[t] = "w_download"

\* C27: serial fetches per host: no two workers are inside a page download
\* for urls of the same host at the same time.
C27_SerialFetchesPerHost ==
    \A t1, t2 \in Workers :
        (t1 # t2 /\ InDownload(t1) /\ InDownload(t2))
            => cur[t1].url.netloc # cur[t2].url.netloc

\* C28: snapshot round trip: a Frontier constructed with restart=False
\* after pickle_fields dumped has the subdomain map, the domains of
\* last_request_time, the similarity index and the low-data and error url
\* sets the dumping Frontier had at the dump.
C28_SnapshotRoundTrip ==
    (Resumed /\ backups.written) =>
        /\ subdomains = pickled.subdomains
        /\ DOMAIN last_request_time = pickled.last_request_time
        /\ simhashes = pickled.simhashes
        /\ low_data_urls = pickled.low_data_urls
        /\ error_urls = pickled.error_urls

\* ------------------------------------------------- the write and the sync
\* add_url lines 143-152 alone: the url joins the subdomain map and the
\* record is written; self.save.sync() of line 153 is still to be called.
\* AddCommit is then the rest of the call, from the sync on.
AddWrite(t) ==
    /\ t \notin syncing /\ Committing(t)
    /\ LET u == Top(t).url
           fragmentless_url == Fragmentless(u)
       IN  /\ can_fetch(robots_parsers[u.netloc], u.path)
           /\ subdomains' = [subdomains EXCEPT ![u.netloc] = @ \cup {fragmentless_url}]
           /\ save' = Set(save, get_urlhash(fragmentless_url),
                          Record(fragmentless_url, Top(t).depth, FALSE))
    /\ syncing' = syncing \cup {t}
    /\ UNCHANGED <<politeness_delay, web, parser_vars, lock_vars, api, backup_vars, disk, domains_to_scrape,
                   last_request_time, robots_parsers, sitemaps, simhashes,
                   low_data_urls, error_urls, lock, robots_parsers_lock,
                   thread_vars, history_vars>>

\* mark_url_complete lines 212-216 alone: self.lock is taken and the
\* record is written; the sync of line 217 is still to be called.
MarkWrite(t) ==
    /\ pc[t] = "w_mark" /\ lock = {} /\ t \notin syncing
    /\ save' = mark_url_complete(save, cur[t].url, cur[t].depth)
    /\ lock' = {t}
    /\ syncing' = syncing \cup {t}
    /\ UNCHANGED <<politeness_delay, web, parser_vars, lock_vars, api, backup_vars, disk, domains_to_scrape,
                   last_request_time, robots_parsers, sitemaps, subdomains,
                   simhashes, low_data_urls, error_urls, robots_parsers_lock,
                   thread_vars, history_vars>>

\* The rest of mark_url_complete: the sync, and the lock is released.
MarkSync(t) ==
    /\ pc[t] = "w_mark" /\ t \in syncing /\ lock = {t}
    /\ Marking(t)
    /\ lock' = {}

\* The crawl with the write of a record and the sync after it as two
\* steps of a thread, between which the other threads run.
SyncNext ==
    \/ Next
    \/ \E t \in Threads : AddWrite(t)
    \/ \E t \in Workers : MarkWrite(t) \/ MarkSync(t)

SyncSpec == Init /\ [][SyncNext]_vars

\* The records of the index that the file does not hold as they are.
Unsynced == {k \in DOMAIN save : k \notin DOMAIN disk \/ disk[k] # save[k]}

\* C29: crash safety of the index: every write of a record is followed by
\* a sync before any further write, so at any moment the file differs from
\* the index in memory by at most the one record being written.
C29_CrashSafety == Cardinality(Unsynced) <= 1

\* Two urls that differ at most in scheme, fragment and trailing slashes.
SameResource(u1, u2) ==
    u1.netloc = u2.netloc /\ RStripSlash(u1.path) = RStripSlash(u2.path)

\* C30: url identity: urls that differ only in scheme, fragment or a
\* trailing slash, or in several of these, are recorded by add_url under
\* one hash, the hash mark_url_complete computes for the stored url: the
\* index never holds two records for such urls.
C30_UrlIdentity ==
    /\ \A k \in DOMAIN save : get_urlhash(save[k].url) = k
    /\ \A k1, k2 \in DOMAIN save :
          SameResource(save[k1].url, save[k2].url) => k1 = k2

\* C31: trap rejection at add: an add_url call for a url that matches a
\* trap pattern creates no index record and no queue entry for it, while
\* the robots policy of its host is cached.
C31_TrapRejectedAtAdd ==
    (Finished /\ is_infinite_trap(CalledUrl)) =>
        /\ CalledHash \notin DOMAIN save
        /\ EntriesOf(CalledUrl) = {}
        /\ CalledUrl.netloc \in DOMAIN robots_parsers

\* --------------------------------------------- CustomRobotsParser alone
\* A parser built for user_agent is given a robots.txt content of up to
\* MaxLines lines, parses it line by line, and is then asked can_fetch for
\* some paths, as download_robots_txt_parser_for_domain and add_url do
\* (frontier.py:295-297, 148).
MaxLines == 4
RobotsLines ==
    {Line("User-agent", "*"), Line("User-agent", user_agent),
     Line("User-agent", "googlebot"),
     Line("Sitemap", uSitemap), Line("SITEMAP", uIndex),
     Line("Allow", <<"wiki", "A">>), Line("Allow", << >>),
     Line("Disallow", <<"wiki">>), Line("DISALLOW", <<"wiki", "private">>),
     Line("Disallow", << >>),
     Line("Crawl-delay", "1"), BlankLine, NoColonLine}
RobotsPaths == {<<"wiki", "A">>, <<"wiki", "private", "p1">>, <<"wiki">>, <<"x">>}

RobotsInit ==
    /\ robots_txt \in UNION {[1..n -> RobotsLines] : n \in 0..MaxLines}
    /\ parsed = 0 /\ txt_parser = NewParser /\ verdict = NoVerdict
    /\ NoLocking
    /\ last_backup_time = 0 /\ backups = NoBackup /\ pickled = NoPickled
    /\ syncing = {}
    /\ politeness_delay = 0
    /\ web = "wiki"
    /\ api = NoCall
    /\ save = << >> /\ disk = << >>
    /\ domains_to_scrape = << >>
    /\ last_request_time = << >>
    /\ robots_parsers = << >>
    /\ sitemaps = << >>
    /\ subdomains = [h \in Hosts |-> {}]
    /\ simhashes = << >>
    /\ low_data_urls = {}
    /\ error_urls = {}
    /\ lock = {}
    /\ robots_parsers_lock = {}
    /\ pc = [t \in Threads |-> IF t = Main THEN "m_idle" ELSE "w_idle"]
    /\ cur = [t \in Workers |-> NoEntry]
    /\ adds = [t \in Threads |-> << >>]
    /\ stack = [t \in Threads |-> << >>]
    /\ snap = [t \in Workers |-> << >>]
    /\ sleep_left = [t \in Workers |-> 0]
    /\ after = [t \in Workers |-> "loop"]
    /\ scr = [t \in Workers |-> NoScrape]
    /\ similar = [t \in Workers |-> FALSE]
    /\ puts = [h \in Hosts |-> << >>]
    /\ gets = [h \in Hosts |-> << >>]
    /\ since_return = << >>
    /\ fetched = {}
    /\ ready_at_start = [t \in Workers |-> {}]
    /\ downloads = << >>
    /\ since_request = << >>

\* The for loop of parse takes the next line.
ParseLine ==
    /\ parsed < Len(robots_txt)
    /\ txt_parser' = parse_line(txt_parser, robots_txt[parsed + 1])
    /\ parsed' = parsed + 1
    /\ UNCHANGED <<politeness_delay, web, lock_vars, robots_txt, verdict, api, backup_vars,
                   sync_vars, frontier_vars, lock, robots_parsers_lock,
                   thread_vars, history_vars>>

\* parse has returned; can_fetch(path) is called on the parser.
CanFetch(path) ==
    /\ parsed = Len(robots_txt)
    /\ verdict' = [path |-> path, result |-> can_fetch(txt_parser, path),
                   asked |-> TRUE]
    /\ UNCHANGED <<politeness_delay, web, lock_vars, robots_txt, parsed, txt_parser, api,
                   backup_vars, sync_vars, frontier_vars, lock,
                   robots_parsers_lock, thread_vars, history_vars>>

RobotsNext == ParseLine \/ \E path \in RobotsPaths : CanFetch(path)

RobotsSpec == RobotsInit /\ [][RobotsNext]_vars

\* Some prefix of the list is a prefix of the path.
SomePrefix(list, path) == \E i \in 1..Len(list) : StartsWith(path, list[i])

\* C32: the robots decision: can_fetch(path) returns False exactly when
\* some deny prefix is a prefix of the path and no allow prefix is; with
\* both lists empty it returns True.
C32_RobotsDecision ==
    verdict.asked =>
        /\ ~verdict.result <=>
               /\ SomePrefix(txt_parser.disallowed, verdict.path)
               /\ ~SomePrefix(txt_parser.allowed, verdict.path)
        /\ (txt_parser.allowed = << >> /\ txt_parser.disallowed = << >>)
               => verdict.result

\* A path under a deny prefix that is not the first of the list, allowed
\* through an allow prefix.
C32_Witness ==
    /\ verdict.asked /\ verdict.result
    /\ Len(txt_parser.disallowed) = 2
    /\ ~StartsWith(verdict.path, txt_parser.disallowed[1])
    /\ StartsWith(verdict.path, txt_parser.disallowed[2])
    /\ SomePrefix(txt_parser.allowed, verdict.path)

\* parse has taken every line of the content.
ParseDone == parsed = Len(robots_txt) /\ robots_txt # << >>

\* Whether line i is written with the directive, in any spelling.
IsDirective(i, name) ==
    /\ robots_txt[i] \notin {BlankLine, NoColonLine}
    /\ Lower(robots_txt[i].directive) = name
\* The last User-agent line before line i, 0 when there is none.
AgentLineBefore(i) ==
    LET before == {j \in 1..(i - 1) : IsDirective(j, "user-agent")}
    IN  IF before = {} THEN 0 ELSE CHOOSE j \in before : \A k \in before : k <= j
\* Line i stands in a section of the configured agent or of "*".
Governed(i) ==
    /\ AgentLineBefore(i) > 0
    /\ robots_txt[AgentLineBefore(i)].value \in {user_agent, "*"}
\* The values of the lines that satisfy the test, in the order of the file.
ValuesWhere(Test(_)) ==
    LET picked == SelectSeq([i \in 1..Len(robots_txt) |-> i], Test)
    IN  [k \in 1..Len(picked) |-> robots_txt[picked[k]].value]

\* C33: robots parsing: after parse the sitemap list holds the value of
\* every Sitemap line, wherever it stands; the allow and deny lists hold
\* exactly the values that are not blank of the Allow and Disallow lines
\* whose most recent User-agent line names the configured agent or "*".
C33_RobotsParsing ==
    ParseDone =>
        /\ txt_parser.sitemaps = ValuesWhere(LAMBDA i : IsDirective(i, "sitemap"))
        /\ txt_parser.allowed =
               ValuesWhere(LAMBDA i : /\ IsDirective(i, "allow") /\ Governed(i)
                                      /\ robots_txt[i].value # << >>)
        /\ txt_parser.disallowed =
               ValuesWhere(LAMBDA i : /\ IsDirective(i, "disallow") /\ Governed(i)
                                      /\ robots_txt[i].value # << >>)

\* A parsed file with a Disallow line before any User-agent line, one
\* under another agent and one under "*": only the last is in the list.
C33_Witness ==
    /\ ParseDone /\ Len(robots_txt) = 4
    /\ IsDirective(1, "disallow") /\ robots_txt[1].value # << >>
    /\ robots_txt[2] = Line("User-agent", "googlebot")
    /\ robots_txt[3] = Line("User-agent", "*")
    /\ IsDirective(4, "disallow")
    /\ txt_parser.disallowed = <<robots_txt[4].value>>

\* ------------------------------------------------- ready before sleeping
\* The domain of the url a thread holds stands after a domain that has a
\* queued url and is inside its politeness window.
InWindow(d) == d \in DOMAIN last_request_time /\ last_request_time[d] < politeness_delay
PassedOver(t) ==
    \E i, j \in 1..Len(domains_to_scrape) :
        /\ i < j
        /\ domains_to_scrape[j].domain = cur[t].url.netloc
        /\ InWindow(domains_to_scrape[i].domain)
        /\ domains_to_scrape[i].queue # << >>
\* C34 (ready host served before sleeping): a pass of get_tbd_url over the
\* table that met, when it copied the table, a host with a queued url and
\* at least politeness_delay since its last request does not go to sleep;
\* it ends by returning a url, and the url is of a host with at least
\* politeness_delay since its last request, standing hosts inside their
\* window passed over.
C34_ReadyServedBeforeSleep ==
    [][\A t \in Workers :
          /\ (pc[t] = "g_for" /\ pc'[t] = "g_sleep") => ready_at_start[t] = {}
          /\ (pc[t] = "g_for" /\ ready_at_start[t] # {})
                 => pc'[t] \in {"g_for", "g_del", "w_check"}
          /\ (pc[t] = "g_for" /\ pc'[t] = "w_check")
                 => ~InWindow(cur'[t].url.netloc)]_vars
\* Under a positive delay a call has returned the url of a ready host that
\* stands in the table after a host with a queued url inside its window.
C34_Witness ==
    /\ politeness_delay > 0
    /\ \E t \in Workers :
          /\ pc[t] = "w_check" /\ ready_at_start[t] # {}
          /\ PassedOver(t)

\* ------------------------------------------------------ depth discipline
\* A Frontier as __init__ leaves it at the edge of max_depth: constructed
\* with restart=False over a save file whose one open record is the seed
\* page at depth max_depth or max_depth + 1, and over the pickle files, as
\* an earlier run that got that deep leaves them (frontier.py:56-79,
\* 483-510; the completed records of the pages that led there are of urls
\* this model does not meet again); or constructed fresh, to add the seeds.
Pickles ==
    [written |-> TRUE,
     subdomains |-> [h \in Hosts |-> IF h = uA.netloc THEN {uA} ELSE {}],
     robots_parsers |-> Set(<< >>, uA.netloc, EmptyParser),
     sitemaps |-> << >>, simhashes |-> << >>,
     last_request_time |-> {uA.netloc}, bad_urls |-> {}, errors |-> {}]
DepthInit ==
    \/ Init /\ politeness_delay = 0
    \/ \E depth \in {max_depth, max_depth + 1} :
          /\ last_backup_time = 0 /\ backups = Pickles /\ pickled = NoPickled
          /\ NoParse /\ NoLocking
          /\ syncing = {}
          /\ politeness_delay \in 0..MaxDelay
          /\ web = "wiki"
          /\ api = NoCall
          /\ save = Set(<< >>, get_urlhash(uA), Record(uA, depth, FALSE))
          /\ disk = save
          /\ domains_to_scrape = Put(<< >>, uA.netloc, Entry(uA, depth))
          /\ last_request_time = [k \in Pickles.last_request_time |-> politeness_delay]
          /\ robots_parsers = Pickles.robots_parsers
          /\ sitemaps = << >>
          /\ subdomains = Pickles.subdomains
          /\ simhashes = << >>
          /\ low_data_urls = {}
          /\ error_urls = {}
          /\ lock = {}
          /\ robots_parsers_lock = {}
          /\ pc = [t \in Threads |-> IF t = Main THEN "m_start" ELSE "w_idle"]
          /\ cur = [t \in Workers |-> NoEntry]
          /\ adds = [t \in Threads |-> << >>]
          /\ stack = [t \in Threads |-> << >>]
          /\ snap = [t \in Workers |-> << >>]
          /\ sleep_left = [t \in Workers |-> 0]
          /\ after = [t \in Workers |-> "loop"]
          /\ scr = [t \in Workers |-> NoScrape]
          /\ similar = [t \in Workers |-> FALSE]
          /\ puts = [h \in Hosts |-> IF h = uA.netloc THEN <<uA>> ELSE << >>]
          /\ gets = [h \in Hosts |-> << >>]
          /\ since_return = << >>
          /\ fetched = {}
          /\ ready_at_start = [t \in Workers |-> {}]
          /\ downloads = << >>
          /\ since_request = << >>
DepthSpec == DepthInit /\ [][Next]_vars

\* The worker is past the depth test of worker.py:54: it is about to
\* download its url, has its response, or is inside the add_url calls that
\* follow.
PastDepthTest(t) ==
    \/ pc[t] \in {"w_download", "w_simget", "w_simadd", "w_words", "w_adds"}
    \/ stack[t] # << >>
DepthBounds ==
    /\ \A t \in Workers : PastDepthTest(t) => cur[t].depth <= max_depth
    /\ \A k \in DOMAIN save : save[k].depth <= max_depth + 1
\* C35 (depth discipline): the add_url call of a seed writes its record at
\* depth 0; the scraped urls of a page of depth d go to add_url with d + 1;
\* a url dequeued with a depth over max_depth goes to mark_url_complete
\* with no download and no add_url call; so no url of depth over max_depth
\* is downloaded and no record has a depth over max_depth + 1.
C35_DepthDiscipline ==
    [][/\ DepthBounds /\ DepthBounds'
       /\ (pc[Main] = "m_seed" /\ Len(stack[Main]) = 1 /\ stack'[Main] = << >>
              /\ save' # save)
             => save'[get_urlhash(Top(Main).url)].depth = 0
       /\ \A t \in Workers :
             /\ (pc[t] # "w_adds" /\ pc'[t] = "w_adds" /\ ~Redirect(t))
                   => \A i \in 1..Len(adds'[t]) :
                          adds'[t][i].depth = cur[t].depth + 1
             /\ (pc[t] = "w_check" /\ cur[t].depth > max_depth /\ pc'[t] # pc[t])
                   => pc'[t] = "w_mark" /\ after'[t] = "loop"
                          /\ adds'[t] = << >> /\ fetched' = fetched]_vars
\* A url recorded at depth max_depth + 1 as the outlink of a page of depth
\* max_depth has been dequeued and marked complete, and was not downloaded.
C35_Witness ==
    /\ get_urlhash(uA) \in DOMAIN save
    /\ save[get_urlhash(uA)].depth = max_depth
    /\ uA \in fetched
    /\ uB \notin fetched
    /\ get_urlhash(uB) \in DOMAIN save
    /\ save[get_urlhash(uB)] = Record(uB, max_depth + 1, TRUE)
    /\ \A t \in Workers : pc[t] = "exit"

\* ---------------------------------------------------- redirect handling
\* C36 (redirect handling): a worker whose download came back with a
\* status in 300..399 goes on to add_url(Location, depth), at the depth of
\* its own url, when there is a Location header, and to mark_url_complete;
\* it records the url in neither set of bad urls and downloads nothing
\* more in the iteration.
C36_RedirectHandling ==
    [][\A t \in Workers :
          (Redirect(t) \/ RedirectNoRaw(t))
              => /\ pc'[t] \in {"w_adds", "w_mark"}
                 /\ \A i \in 1..Len(adds'[t]) : adds'[t][i].depth = cur[t].depth
                 /\ low_data_urls' = low_data_urls /\ error_urls' = error_urls
                 /\ fetched' = fetched \cup {cur[t].url}]_vars

\* ------------------------------------------------- the add / next race
\* C37 (no url lost to the add/next race): every url add_url has put into
\* the queue of a host is still in the queue the host table holds for that
\* host, or has been returned by get_tbd_url.
C37_NoLostUrl ==
    \A h \in Hosts : \A i \in 1..Len(puts[h]) :
        \/ \E j \in 1..Len(gets[h]) : gets[h][j] = puts[h][i]
        \/ \E j \in 1..Len(QueueUrls(h)) : QueueUrls(h)[j] = puts[h][i]

\* ----------------------------------------------------- the locks alone
\* The calls of the Frontier as the sequences of lock acquisitions and
\* releases their with statements make; what is done under the locks is in
\* the actions above.  All four locks are RLocks (frontier.py:43-46).
Acq(l) == [op |-> "acq", lock |-> l]
Rel(l) == [op |-> "rel", lock |-> l]
\* `with l:` around the steps of its block.
With(l, body) == <<Acq(l)>> \o body \o <<Rel(l)>>
RECURSIVE WithEach(_, _)
WithEach(locks, body) ==
    IF locks = << >> THEN body
    ELSE With(Head(locks), WithEach(Tail(locks), body))
\* `a and b and c` over lock objects, which are all true: the last operand.
AndLocks(locks) == locks[Len(locks)]

\* A pickle_fields whose with statement would take the four locks it names.
PickleAllLocks == <<"lock", "robots_parsers_lock", "sitemaps_lock", "simhash_lock">>
\* `with self.lock and self.robots_parsers_lock and self.sitemaps_lock and
\* self.simhash_lock:` (frontier.py:462).
PickleLocks ==
    <<AndLocks(<<"lock", "robots_parsers_lock", "sitemaps_lock", "simhash_lock">>)>>
\* pickle_fields, with the dump due or not (frontier.py:460-462).
pickle_fields_locks(due) == IF due THEN WithEach(PickleLocks, << >>) ELSE << >>
\* get_tbd_url (frontier.py:91-111): pickle_fields is called inside
\* `with self.lock:`; the loop and time.sleep take no further lock.
get_tbd_url_locks(due) == With("lock", pickle_fields_locks(due))
\* mark_url_complete, get_bad_urls, add_low_data_url, add_error_url and
\* add_words (frontier.py:178, 188, 199, 212, 227).
lock_only == With("lock", << >>)
\* get_simhashes and add_simhash (frontier.py:160, 171).
simhash_only == With("simhash_lock", << >>)
\* get_robots_txt_parser of a new domain (frontier.py:260-262), around
\* download_robots_txt_parser_for_domain (frontier.py:277).
get_robots_txt_parser_locks == With("robots_parsers_lock", With("lock", << >>))
\* add_url (frontier.py:130-154).  For a known domain it takes its with
\* statement alone.  For a new one it calls get_robots_txt_parser, then
\* get_sitemap_urls_from_robots_txt (frontier.py:322), whose
\* process_sitemaps holds sitemaps_lock around the add_url call of a url
\* of the sitemap (frontier.py:346-355); n is how many of the nested calls
\* meet a new domain in their turn.
RECURSIVE add_url_locks(_)
add_url_locks(n) ==
    With(AndLocks(<<"lock", "robots_parsers_lock">>),
         IF n = 0 THEN << >>
         ELSE get_robots_txt_parser_locks
              \o With(AndLocks(<<"robots_parsers_lock", "sitemaps_lock">>), << >>)
              \o With("sitemaps_lock", add_url_locks(n - 1)))

Holder(l) ==
    CASE l = "lock" -> lock
      [] l = "robots_parsers_lock" -> robots_parsers_lock
      [] l = "sitemaps_lock" -> sitemaps_lock
      [] l = "simhash_lock" -> simhash_lock
SetHolder(l, threads) ==
    /\ lock' = IF l = "lock" THEN threads ELSE lock
    /\ robots_parsers_lock' =
           IF l = "robots_parsers_lock" THEN threads ELSE robots_parsers_lock
    /\ sitemaps_lock' = IF l = "sitemaps_lock" THEN threads ELSE sitemaps_lock
    /\ simhash_lock' = IF l = "simhash_lock" THEN threads ELSE simhash_lock

\* A worker outside every lock calls into the Frontier.
Calls(t, steps) ==
    /\ todo[t] = NoSteps
    /\ todo' = [todo EXCEPT ![t] = [steps |-> steps, held |-> << >>]]
    /\ UNCHANGED <<politeness_delay, web, parser_vars, api, backup_vars,
                   sync_vars, frontier_vars, lock, robots_parsers_lock,
                   simhash_lock, sitemaps_lock, thread_vars, history_vars>>
CallGet(t) == \E due \in BOOLEAN : Calls(t, get_tbd_url_locks(due))
CallAdd(t) == \E n \in 0..MaxNest : Calls(t, add_url_locks(n))
CallMark(t) == Calls(t, lock_only)
CallSimhash(t) == Calls(t, simhash_only)

\* RLock.acquire: the lock is free or the thread's own.
Acquire(t) ==
    /\ todo[t].steps # << >> /\ Head(todo[t].steps).op = "acq"
    /\ LET l == Head(todo[t].steps).lock
       IN  /\ Holder(l) \subseteq {t}
           /\ SetHolder(l, {t})
           /\ todo' = [todo EXCEPT ![t] = [steps |-> Tail(todo[t].steps),
                                           held |-> Append(todo[t].held, l)]]
    /\ UNCHANGED <<politeness_delay, web, parser_vars, api, backup_vars,
                   sync_vars, frontier_vars, thread_vars, history_vars>>
\* RLock.release at the end of a with block: the lock is free once the
\* thread's outermost block on it ends.
Release(t) ==
    /\ todo[t].steps # << >> /\ Head(todo[t].steps).op = "rel"
    /\ LET l == Head(todo[t].steps).lock
           outer == SubSeq(todo[t].held, 1, Len(todo[t].held) - 1)
       IN  /\ SetHolder(l, IF \E i \in 1..Len(outer) : outer[i] = l
                           THEN {t} ELSE {})
           /\ todo' = [todo EXCEPT ![t] = [steps |-> Tail(todo[t].steps),
                                           held |-> outer]]
    /\ UNCHANGED <<politeness_delay, web, parser_vars, api, backup_vars,
                   sync_vars, frontier_vars, thread_vars, history_vars>>

LockInit == AddInit /\ politeness_delay = 0 /\ web = "wiki"
LockNext ==
    \E t \in Workers : CallGet(t) \/ CallAdd(t) \/ CallMark(t) \/ CallSimhash(t)
                         \/ Acquire(t) \/ Release(t)
LockSpec == LockInit /\ [][LockNext]_vars

\* The thread waits for a lock that another thread holds.
Blocked(t) ==
    /\ todo[t].steps # << >> /\ Head(todo[t].steps).op = "acq"
    /\ Holder(Head(todo[t].steps).lock) \ {t} # {}
\* C38 (deadlock freedom): with the workers calling get_tbd_url (with
\* pickle_fields), add_url (with the robots and sitemap ingestion of a new
\* host), mark_url_complete, get_bad_urls, get_simhashes and add_simhash,
\* in no state is every worker waiting for a lock that another holds.
C38_DeadlockFree == \E t \in Workers : ~Blocked(t)
\* A worker inside add_url holds robots_parsers_lock and waits for
\* self.lock, which a worker inside get_tbd_url holds while it is about to
\* take simhash_lock for pickle_fields.
C38_Witness ==
    \E t, u \in Workers :
        /\ Blocked(t)
        /\ todo[t].held = <<"robots_parsers_lock", "robots_parsers_lock">>
        /\ lock = {u}
        /\ todo[u].steps # << >> /\ Head(todo[u].steps) = Acq("simhash_lock")

\* ------------------------------------------ similarity check and record
\* C39 (atomic similarity check-and-record): of two workers that are
\* between get_simhashes and add_simhash with pages of different urls and
\* the same fingerprint, at most one has found the fingerprint unknown.
C39_AtomicCheckAndRecord ==
    \A t, u \in Workers :
        (/\ t # u /\ pc[t] = "w_simadd" /\ pc[u] = "w_simadd"
         /\ cur[t].url # cur[u].url /\ scr[t].simhash = scr[u].simhash)
            => similar[t] \/ similar[u]

\* ------------------------------------------------- sleeping and the lock
\* C40 (the scheduler sleeps without the lock): a thread that is in the
\* time.sleep of get_tbd_url does not hold self.lock.
C40_SleepsWithoutLock ==
    \A t \in Workers : pc[t] = "g_sleep" => t \notin lock

====
